---- MODULE Spec2Model ----
(***************************************************************************)
(* gemistat: pricing resolver (pricing.ts), telemetry record parser        *)
(* (telemetry-parser.ts), usage extraction and rollups (data-loader.ts)    *)
(* and date filtering (_date-utils.ts).                                    *)
(*                                                                         *)
(* Several programs are modelled over one set of variables:                *)
(*   Spec       - a process in which several pricing lookups run           *)
(*                concurrently on the event loop (the live display);       *)
(*   LookupSpec - one pricing lookup at a time, for every model name;      *)
(*   BatchSpec  - a telemetry file is written, parsed and its events are   *)
(*                priced one after another;                                *)
(*   ParseSpec  - a telemetry file is written and parsed;                  *)
(*   ReportSpec - a daily or monthly report, from the file to the buckets; *)
(*   FilterSpec - calls of filterByDateRange;                              *)
(*   TotalsSpec - calls of calculateTotals.                                *)
(***************************************************************************)
EXTENDS Integers, Sequences, FiniteSets, TLC

\* ------------------------------------------------------------------ bounds
MaxCalls == 2        \* pricing lookups that may be in flight at once
MaxRecords == 3      \* records written to the telemetry file
MaxItems == 3        \* items of a list handed to filterByDateRange
MaxBuckets == 3      \* buckets of a list handed to calculateTotals

\* --------------------------------------------------------------- option type
\* null / undefined is the empty tuple, a present value x is <<x>>
None == <<>>
Some(x) == <<x>>

Min(S) == CHOOSE x \in S : \A y \in S : x <= y

\* ------------------------------------------------------------------ strings
\* A string is handled by name in the state; Chars gives its spelling, on
\* which includes / toLowerCase / concatenation are computed.
Chars ==
    "gemini" :> <<"g","e","m","i","n","i">> @@
    "gemini-pro" :> <<"g","e","m","i","n","i","-","p","r","o">> @@
    "Gemini-Pro" :> <<"G","e","m","i","n","i","-","P","r","o">> @@
    "gemini-flash" :> <<"g","e","m","i","n","i","-","f","l","a","s","h">> @@
    "google/gemini-flash" :> <<"g","o","o","g","l","e","/","g","e","m","i","n","i","-","f","l","a","s","h">> @@
    "vertex_ai/gemini-flash" :> <<"v","e","r","t","e","x","_","a","i","/","g","e","m","i","n","i","-","f","l","a","s","h">> @@
    "gemini/gemini-flash" :> <<"g","e","m","i","n","i","/","g","e","m","i","n","i","-","f","l","a","s","h">> @@
    "my-gemini-model" :> <<"m","y","-","g","e","m","i","n","i","-","m","o","d","e","l">> @@
    "my-gemini-model-custom" :> <<"m","y","-","g","e","m","i","n","i","-","m","o","d","e","l","-","c","u","s","t","o","m">> @@
    "learnlm" :> <<"l","e","a","r","n","l","m">> @@
    "totally-unknown-model" :> <<"t","o","t","a","l","l","y","-","u","n","k","n","o","w","n","-","m","o","d","e","l">> @@
    "gemini-2.0-flash-exp" :> <<"g","e","m","i","n","i","-","2",".","0","-","f","l","a","s","h","-","e","x","p">> @@
    "gemini-2.0-flash-thinking-exp" :> <<"g","e","m","i","n","i","-","2",".","0","-","f","l","a","s","h","-","t","h","i","n","k","i","n","g","-","e","x","p">> @@
    "gemini-2.0-flash-thinking-exp-1219" :> <<"g","e","m","i","n","i","-","2",".","0","-","f","l","a","s","h","-","t","h","i","n","k","i","n","g","-","e","x","p","-","1","2","1","9">> @@
    "gemini-exp-1206" :> <<"g","e","m","i","n","i","-","e","x","p","-","1","2","0","6">> @@
    "gemini-exp-1121" :> <<"g","e","m","i","n","i","-","e","x","p","-","1","1","2","1">> @@
    "learnlm-1.5-pro-experimental" :> <<"l","e","a","r","n","l","m","-","1",".","5","-","p","r","o","-","e","x","p","e","r","i","m","e","n","t","a","l">> @@
    "google/" :> <<"g","o","o","g","l","e","/">> @@
    "2025-08-24" :> <<"2","0","2","5","-","0","8","-","2","4">> @@
    "2025-08-25" :> <<"2","0","2","5","-","0","8","-","2","5">> @@
    "2025-08-31" :> <<"2","0","2","5","-","0","8","-","3","1">> @@
    "2025-09-01" :> <<"2","0","2","5","-","0","9","-","0","1">> @@
    "2025-08" :> <<"2","0","2","5","-","0","8">> @@
    "2025-09" :> <<"2","0","2","5","-","0","9">> @@
    "20250825" :> <<"2","0","2","5","0","8","2","5">> @@
    "2024-01-01" :> <<"2","0","2","4","-","0","1","-","0","1">> @@
    "2024-01-02" :> <<"2","0","2","4","-","0","1","-","0","2">> @@
    "2024-01-03" :> <<"2","0","2","4","-","0","1","-","0","3">> @@
    "2024-01-04" :> <<"2","0","2","4","-","0","1","-","0","4">> @@
    "2024-01-05" :> <<"2","0","2","4","-","0","1","-","0","5">> @@
    "2024-01-03T10:00:00Z" :> <<"2","0","2","4","-","0","1","-","0","3","T","1","0",":","0","0",":","0","0","Z">> @@
    "20240102" :> <<"2","0","2","4","0","1","0","2">> @@
    "20240104" :> <<"2","0","2","4","0","1","0","4">> @@
    "vertex_ai/" :> <<"v","e","r","t","e","x","_","a","i","/">> @@
    "gemini/" :> <<"g","e","m","i","n","i","/">>

\* String.prototype.includes: b occurs in a as a contiguous run
includes(a, b) ==
    \E i \in 0..(Len(a) - Len(b)) : SubSeq(a, i + 1, i + Len(b)) = b

\* String.prototype.toLowerCase on the characters the names use
lowerChar(ch) ==
    CASE ch = "G" -> "g"
      [] ch = "P" -> "p"
      [] OTHER -> ch

toLowerCase(s) == [i \in 1..Len(s) |-> lowerChar(s[i])]

\* ------------------------------------------------------------------ pricing
\* ModelPricing: costs are whole price units per token; an absent
\* cachedCostPerToken is None.
Pricing(inp, out, cached) ==
    [inputCostPerToken |-> inp, outputCostPerToken |-> out, cachedCostPerToken |-> cached]

\* CACHE_TOKEN_COST_MULTIPLIER = 0.25 = CacheMultNum / CacheMultDen.  Every
\* cost computed by calculateCost is expressed in 1/CacheMultDen price units.
CacheMultNum == 1
CacheMultDen == 4

Entry(k, p) == [key |-> k, pricing |-> p]

\* EXPERIMENTAL_MODELS, in declaration order
EXPERIMENTAL_MODELS == <<
    Entry("gemini-2.0-flash-exp", Pricing(0, 0, None)),
    Entry("gemini-2.0-flash-thinking-exp", Pricing(0, 0, None)),
    Entry("gemini-2.0-flash-thinking-exp-1219", Pricing(0, 0, None)),
    Entry("gemini-exp-1206", Pricing(0, 0, None)),
    Entry("gemini-exp-1121", Pricing(0, 0, None)),
    Entry("learnlm-1.5-pro-experimental", Pricing(0, 0, None)) >>

\* Map.get / property lookup by spelling: the entry whose key is spelled s
MapGet(m, s) ==
    LET hits == {i \in DOMAIN m : Chars[m[i].key] = s}
    IN  IF hits = {} THEN None ELSE Some(m[Min(hits)].pricing)

MapHas(m, k) == \E i \in DOMAIN m : m[i].key = k

\* "Add experimental models": append, in table order, the experimental
\* entries whose key the map lacks
RECURSIVE AddExperimental(_, _)
AddExperimental(m, i) ==
    IF i > Len(EXPERIMENTAL_MODELS) THEN m
    ELSE AddExperimental(
            IF MapHas(m, EXPERIMENTAL_MODELS[i].key) THEN m
            ELSE Append(m, EXPERIMENTAL_MODELS[i]),
            i + 1)

\* A remote (LiteLLM) document entry; a field that is missing or not a
\* number is None.
Raw(k, inp, out, cached) ==
    [key |-> k, input_cost_per_token |-> inp, output_cost_per_token |-> out,
     cache_read_input_token_cost |-> cached]

\* Documents the remote pricing URL may serve, keys in document order
RemoteDocs == {
    << Raw("gemini/gemini-flash", Some(2), Some(6), Some(1)),
       Raw("vertex_ai/gemini-flash", Some(3), Some(9), None),
       Raw("google/gemini-flash", Some(1), Some(1), None),
       Raw("gemini", Some(5), Some(7), Some(0)),
       Raw("my-gemini-model", Some(8), Some(8), None),
       Raw("gemini-pro", Some(4), Some(12), Some(2)) >>,
    << Raw("gemini/gemini-flash", Some(2), Some(6), Some(1)),
       Raw("vertex_ai/gemini-flash", Some(3), Some(9), Some(0)),
       Raw("gemini", None, None, Some(3)),
       Raw("my-gemini-model", None, Some(10), None),
       Raw("gemini-exp-1206", Some(11), Some(13), None) >> }

\* Snapshots the build may have bundled (prefetchGeminiPricing is a macro:
\* its value is computed at build time and is a constant of the process)
Snapshots == {
    << Entry("gemini-pro", Pricing(4, 12, Some(2))),
       Entry("gemini/gemini-flash", Pricing(2, 6, None)) >>,
    << Entry("gemini-exp-1206", Pricing(11, 13, None)),
       Entry("gemini", Pricing(5, 7, Some(0))) >> }

\* "Parse LiteLLM pricing data": keep the entries with a numeric input or
\* output cost; a missing cost of the two is 0
RECURSIVE ParseLiteLLM(_)
ParseLiteLLM(data) ==
    IF data = <<>> THEN <<>>
    ELSE LET model == Head(data)
             inputCost == IF model.input_cost_per_token /= None
                          THEN model.input_cost_per_token[1] ELSE 0
             outputCost == IF model.output_cost_per_token /= None
                           THEN model.output_cost_per_token[1] ELSE 0
         IN  IF model.input_cost_per_token /= None \/ model.output_cost_per_token /= None
             THEN <<Entry(model.key,
                          Pricing(inputCost, outputCost, model.cache_read_input_token_cost))>>
                  \o ParseLiteLLM(Tail(data))
             ELSE ParseLiteLLM(Tail(data))

\* the catalog built from a successful fetch
RemoteCatalog(data) == AddExperimental(ParseLiteLLM(data), 1)

\* the catalog built from the bundled snapshot
OfflineCatalog(snap) == AddExperimental(snap, 1)

\* the catalog of the earlier revision's failure path
ExperimentalOnly == EXPERIMENTAL_MODELS

\* the `variations` array of getModelPricing (lines 160-165), reordered
\* so that the bare gemini/ prefix is tried before the other providers
variationsReordered(name) ==
    << name,
       Chars["gemini/"] \o name,
       Chars["vertex_ai/"] \o name,
       Chars["google/"] \o name >>

\* the `variations` array of getModelPricing (lines 160-165)
variations(name) ==
    << name,
       Chars["google/"] \o name,
       Chars["vertex_ai/"] \o name,
       Chars["gemini/"] \o name >>

\* the condition of the partial-match loop (lines 183-187)
partialMatch(key, name) ==
    LET lowerModel == toLowerCase(name)
        lowerKey == toLowerCase(key)
    IN  /\ includes(lowerKey, Chars["gemini"])
        /\ \/ includes(lowerModel, lowerKey)
           \/ includes(lowerKey, lowerModel)

\* a partial-match loop that keeps the longest matching key instead of
\* returning at the first one
bestPartial(pricing, name) ==
    LET hits == {i \in DOMAIN pricing : partialMatch(Chars[pricing[i].key], name)}
    IN  IF hits = {} THEN None
        ELSE Some(pricing[CHOOSE i \in hits :
                            \A j \in hits :
                               \/ Len(Chars[pricing[j].key]) < Len(Chars[pricing[i].key])
                               \/ /\ Len(Chars[pricing[j].key]) = Len(Chars[pricing[i].key])
                                  /\ i <= j].pricing)

\* the partial-match loop over the catalog (lines 182-190): the value of
\* the first entry, in Map order, that satisfies the condition
firstPartial(pricing, name) ==
    LET hits == {i \in DOMAIN pricing : partialMatch(Chars[pricing[i].key], name)}
    IN  IF hits = {} THEN None ELSE Some(pricing[Min(hits)].pricing)

\* the last-resort loop over EXPERIMENTAL_MODELS (lines 193-197)
lastResort(name) ==
    LET hits == {i \in DOMAIN EXPERIMENTAL_MODELS :
                   LET key == Chars[EXPERIMENTAL_MODELS[i].key]
                   IN  includes(name, key) \/ includes(key, name)}
    IN  IF hits = {} THEN None ELSE Some(EXPERIMENTAL_MODELS[Min(hits)].pricing)

\* getModelPricing, after fetchPricingData has returned `pricing`
getModelPricing(pricing, modelName) ==
    LET name == Chars[modelName]
        direct == MapGet(pricing, name)
        varHits == {i \in 1..4 : MapGet(pricing, variations(name)[i]) /= None}
        experimental == MapGet(EXPERIMENTAL_MODELS, name)
    IN  IF direct /= None THEN direct
        ELSE IF varHits /= {} THEN MapGet(pricing, variations(name)[Min(varHits)])
        ELSE IF experimental /= None THEN experimental
        ELSE IF firstPartial(pricing, name) /= None THEN firstPartial(pricing, name)
        ELSE lastResort(name)

\* model names the callers ask for
ModelNames == {"gemini-pro", "Gemini-Pro", "gemini-flash", "gemini-exp-1206",
               "my-gemini-model-custom", "learnlm", "totally-unknown-model"}

\* model names asked for by the concurrent lookups of the live display
ConcurrentNames == {"gemini-flash", "totally-unknown-model"}

\* --------------------------------------------------------------- cost math
\* calculateCost, after getModelPricing has returned `pricing` (an option);
\* lines 222-243.  All costs are in 1/CacheMultDen price units.
\* the earlier revision's `cachedCostPerToken || inputCostPerToken * 0.25`:
\* a cached cost of 0 falls through to the multiplier
cachedRateFalsy(pricing) ==
    IF pricing.cachedCostPerToken /= None /\ pricing.cachedCostPerToken[1] /= 0
    THEN pricing.cachedCostPerToken[1] * CacheMultDen
    ELSE pricing.inputCostPerToken * CacheMultNum

\* cachedCostPerToken ?? inputCostPerToken * CACHE_TOKEN_COST_MULTIPLIER
cachedRate(pricing) ==
    IF pricing.cachedCostPerToken /= None
    THEN pricing.cachedCostPerToken[1] * CacheMultDen
    ELSE pricing.inputCostPerToken * CacheMultNum

calculateCost(pricing, inputTokens, outputTokens, cachedTokens, thoughtsTokens, toolTokens) ==
    IF pricing = None THEN None
    ELSE LET p == pricing[1]
             inputCost == inputTokens * p.inputCostPerToken * CacheMultDen
             outputCost == outputTokens * p.outputCostPerToken * CacheMultDen
             cachedCost == cachedTokens * cachedRate(p)
             thoughtsCost == thoughtsTokens * p.outputCostPerToken * CacheMultDen
             toolCost == toolTokens * p.outputCostPerToken * CacheMultDen
         IN  Some([inputCost |-> inputCost, outputCost |-> outputCost,
                   cachedCost |-> cachedCost, thoughtsCost |-> thoughtsCost,
                   toolCost |-> toolCost,
                   totalCost |-> inputCost + outputCost + cachedCost + thoughtsCost + toolCost])

\* ------------------------------------------------------------- JSON values
\* A JSON / JavaScript value: vt is its type tag; s the text of a string,
\* n the value of an integer number, members the members of an object in
\* order.  "frac" is a number that is not an integer, "bare" a bare word
\* that is not a JSON literal, "undef" is undefined.
Val(vt, s, n, members) == [vt |-> vt, s |-> s, n |-> n, members |-> members]
Str(s) == Val("str", s, 0, <<>>)
Num(n) == Val("num", "", n, <<>>)
Frac == Val("frac", "", 0, <<>>)
Null == Val("null", "", 0, <<>>)
Bare == Val("bare", "", 0, <<>>)
Undefined == Val("undef", "", 0, <<>>)
Obj(members) == Val("obj", "", 0, members)
Member(k, v) == [k |-> k, v |-> v]

\* obj[k]: the last member named k, undefined when there is none or when
\* obj is not an object
Prop(obj, k) ==
    LET hits == {i \in DOMAIN obj.members : obj.members[i].k = k}
    IN  IF obj.vt /= "obj" \/ hits = {} THEN Undefined
        ELSE obj.members[CHOOSE i \in hits : \A j \in hits : j <= i].v

\* ------------------------------------------------------------------- text
\* File content is a sequence of lexemes: the braces, the newline, one
\* indentation step, the comma, `"k":` followed by an object ("key") and
\* `"k": v` for a scalar v ("pair").  No lexeme but "{", "}" and "nl"
\* contains a brace or a newline.
Tok(t, k, v) == [t |-> t, k |-> k, v |-> v]
LB == Tok("{", "", Undefined)
RB == Tok("}", "", Undefined)
NL == Tok("nl", "", Undefined)
SP == Tok("sp", "", Undefined)
COMMA == Tok(",", "", Undefined)

IsSpace(tok) == tok.t \in {"nl", "sp"}

Indent(depth) == [i \in 1..depth |-> SP]

\* JSON.stringify(value, null, 2) of an object, as the wrapped CLI writes
\* its log records
RECURSIVE PrettyObj(_, _), PrettyMembers(_, _, _)
PrettyObj(members, depth) ==
    IF members = <<>> THEN <<LB, RB>>
    ELSE <<LB, NL>> \o PrettyMembers(members, 1, depth + 1)
         \o <<NL>> \o Indent(depth) \o <<RB>>

PrettyMembers(members, i, depth) ==
    LET m == members[i]
        one == IF m.v.vt = "obj"
               THEN <<Tok("key", m.k, Undefined)>> \o PrettyObj(m.v.members, depth)
               ELSE <<Tok("pair", m.k, m.v)>>
    IN  Indent(depth) \o one \o
        (IF i = Len(members) THEN <<>>
         ELSE <<COMMA, NL>> \o PrettyMembers(members, i + 1, depth))

\* String.prototype.trim
trim(s) ==
    LET solid == {i \in DOMAIN s : ~IsSpace(s[i])}
    IN  IF solid = {} THEN <<>>
        ELSE SubSeq(s, Min(solid), CHOOSE i \in solid : \A j \in solid : j <= i)

\* String.prototype.split(separator): leftmost, non-overlapping matches
RECURSIVE split(_, _)
split(s, sep) ==
    LET hits == {i \in 1..(Len(s) - Len(sep) + 1) : SubSeq(s, i, i + Len(sep) - 1) = sep}
    IN  IF hits = {} THEN <<s>>
        ELSE <<SubSeq(s, 1, Min(hits) - 1)>>
             \o split(SubSeq(s, Min(hits) + Len(sep), Len(s)), sep)

\* JSON.parse: None when the text is not one JSON value, else Some(value).
\* Whitespace between lexemes is insignificant.
StripSpace(s) == SelectSeq(s, LAMBDA tok : ~IsSpace(tok))

ParseFail == [ok |-> FALSE, next |-> 0, val |-> Undefined]

RECURSIVE ParseObject(_, _), ParseMembers(_, _, _), ParseAfterMember(_, _, _)
\* s[i] is "{": parse the object that starts there
ParseObject(s, i) ==
    IF i + 1 > Len(s) THEN ParseFail
    ELSE IF s[i + 1].t = "}" THEN [ok |-> TRUE, next |-> i + 2, val |-> Obj(<<>>)]
    ELSE ParseMembers(s, i + 1, <<>>)

ParseMembers(s, i, acc) ==
    IF i > Len(s) THEN ParseFail
    ELSE IF s[i].t = "pair"
    THEN IF s[i].v.vt = "bare" THEN ParseFail
         ELSE ParseAfterMember(s, i + 1, Append(acc, Member(s[i].k, s[i].v)))
    ELSE IF s[i].t = "key" /\ i + 1 <= Len(s) /\ s[i + 1].t = "{"
    THEN LET r == ParseObject(s, i + 1)
         IN  IF r.ok THEN ParseAfterMember(s, r.next, Append(acc, Member(s[i].k, r.val)))
             ELSE ParseFail
    ELSE ParseFail

ParseAfterMember(s, i, acc) ==
    IF i > Len(s) THEN ParseFail
    ELSE IF s[i].t = "," THEN ParseMembers(s, i + 1, acc)
    ELSE IF s[i].t = "}" THEN [ok |-> TRUE, next |-> i + 1, val |-> Obj(acc)]
    ELSE ParseFail

JSONparse(text) ==
    LET s == StripSpace(text)
        r == IF s /= <<>> /\ s[1].t = "{" THEN ParseObject(s, 1) ELSE ParseFail
    IN  IF r.ok /\ r.next = Len(s) + 1 THEN Some(r.val) ELSE None

\* ----------------------------------------------------------------- parser
API_RESPONSE == "gemini_cli.api_response"

\* telemetryEventSchema.safeParse(rawEvent).success
OptionalString(v) == v.vt \in {"undef", "str"}
\* z.number().optional(): any number passes
OptionalCountAnyNumber(v) == v.vt \in {"undef", "num", "frac"}
\* z.number().int().min(0).optional()
OptionalCount(v) == v.vt = "undef" \/ (v.vt = "num" /\ v.n >= 0)

telemetryEventSchema(e) ==
    /\ e.timestamp.vt = "str"
    /\ OptionalString(e.model)
    /\ OptionalCount(e.inputTokens)
    /\ OptionalCount(e.outputTokens)
    /\ OptionalCount(e.cachedTokens)
    /\ OptionalCount(e.thoughtsTokens)
    /\ OptionalCount(e.toolTokens)

\* a ?? b
Coalesce(a, b) == IF a.vt \in {"undef", "null"} THEN b ELSE a

\* the rawEvent projected from the attributes of a log record (lines 112-120)
rawEvent(attrs) ==
    [timestamp |-> Coalesce(Prop(attrs, "event.timestamp"), Str("")),
     model |-> Prop(attrs, "model"),
     inputTokens |-> Prop(attrs, "input_token_count"),
     outputTokens |-> Prop(attrs, "output_token_count"),
     cachedTokens |-> Prop(attrs, "cached_content_token_count"),
     thoughtsTokens |-> Prop(attrs, "thoughts_token_count"),
     toolTokens |-> Prop(attrs, "tool_token_count")]

\* a loop body that does not look at the event name
eventsOfCandidateAnyName(jsonStr) ==
    LET logRecord == JSONparse(jsonStr)
        attrs == Prop(logRecord[1], "attributes")
    IN  IF logRecord = None THEN <<>>
        ELSE IF attrs.vt \in {"undef", "null"} THEN <<>>
        ELSE IF ~telemetryEventSchema(rawEvent(attrs)) THEN <<>>
        ELSE <<rawEvent(attrs)>>

\* the events one candidate string contributes (body of the for loop,
\* lines 91-134): none when JSON.parse throws, the record has no attributes,
\* the event name differs or the schema rejects the projection
eventsOfCandidate(jsonStr) ==
    LET logRecord == JSONparse(jsonStr)
        attrs == Prop(logRecord[1], "attributes")
    IN  IF logRecord = None THEN <<>>
        ELSE IF attrs.vt \in {"undef", "null"} THEN <<>>
        ELSE IF Prop(attrs, "event.name") /= Str(API_RESPONSE) THEN <<>>
        ELSE IF ~telemetryEventSchema(rawEvent(attrs)) THEN <<>>
        ELSE <<rawEvent(attrs)>>

\* the separator of content.trim().split('\n}\n{')
RecordSeparator == <<NL, RB, NL, LB>>

\* a map callback that forgets the closing brace of the first piece
jsonObjectsNoBrace(content) ==
    LET parts == split(trim(content), RecordSeparator)
        n == Len(parts)
        mapped == [index \in 1..n |->
                     IF index = 1 THEN parts[index]
                     ELSE IF index = n THEN <<LB>> \o parts[index]
                     ELSE <<LB>> \o parts[index] \o <<RB>>]
    IN  SelectSeq(mapped, LAMBDA obj : trim(obj) /= <<>>)

\* the candidate strings: the pieces with the braces put back, blanks removed
jsonObjects(content) ==
    LET parts == split(trim(content), RecordSeparator)
        n == Len(parts)
        mapped == [index \in 1..n |->
                     IF index = 1 THEN parts[index] \o (IF n > 1 THEN <<RB>> ELSE <<>>)
                     ELSE IF index = n THEN <<LB>> \o parts[index]
                     ELSE <<LB>> \o parts[index] \o <<RB>>]
    IN  SelectSeq(mapped, LAMBDA obj : trim(obj) /= <<>>)

RECURSIVE eventsOfCandidates(_)
eventsOfCandidates(objs) ==
    IF objs = <<>> THEN <<>>
    ELSE eventsOfCandidate(Head(objs)) \o eventsOfCandidates(Tail(objs))

\* The completion of a piece of code: normal with a value, or thrown
Normal(v) == [thrown |-> FALSE, val |-> v]
Thrown(v) == [thrown |-> TRUE, val |-> v]

\* the body of the for loop (lines 92-130) before its handler: JSON.parse
\* throws a SyntaxError on text that is not JSON (so does the property
\* access on a parsed null); safeParse does not throw
loopBody(jsonStr) ==
    IF JSONparse(jsonStr) = None THEN Thrown(<<>>)
    ELSE Normal(eventsOfCandidate(jsonStr))

\* try { body } catch { } of lines 91-134: the exception is swallowed and
\* the iteration pushes nothing
loopIteration(jsonStr) ==
    LET completion == loopBody(jsonStr)
    IN  IF completion.thrown THEN Normal(<<>>) ELSE completion

\* for (const jsonStr of jsonObjects): `acc` is the events array so far; an
\* exception that escapes an iteration ends the loop
RECURSIVE forLoop(_, _)
forLoop(objs, acc) ==
    IF objs = <<>> THEN Normal(acc)
    ELSE LET completion == loopIteration(Head(objs))
         IN  IF completion.thrown THEN Thrown(acc)
             ELSE forLoop(Tail(objs), acc \o completion.val)

\* a parser with neither handler: the first SyntaxError escapes to the caller
parseCompletionNoHandlers(content) ==
    IF trim(content) = <<>> THEN Normal(<<>>)
    ELSE IF \E i \in DOMAIN jsonObjects(content) : loopBody(jsonObjects(content)[i]).thrown
    THEN Thrown(<<>>)
    ELSE Normal(eventsOfCandidates(jsonObjects(content)))

\* parseTelemetryContent as a whole (lines 68-142): the blank check, the
\* outer try whose handler falls through to `return events`
parseCompletion(content) ==
    IF trim(content) = <<>> THEN Normal(<<>>)
    ELSE LET completion == forLoop(jsonObjects(content), <<>>)
         IN  IF completion.thrown THEN Normal(completion.val) ELSE completion

\* the sequence parseTelemetryContent returns
parseTelemetryContent(content) == parseCompletion(content).val

\* ------------------------------------------------------------- timestamps
VARIABLE
    timeZone         \* UTC offset of the host's time zone, in hours

\* the host zones considered: Honolulu, UTC, Tokyo
TimeZones == {0 - 10, 0, 9}

\* new Date(timestamp): the instant of a timestamp that new Date() can read,
\* in minutes since 2025-08-01T00:00Z; any other string gives an Invalid Date
Instants ==
    "2025-08-24T10:00:00.000Z" :> 23 * 1440 + 10 * 60 @@
    "2025-08-24T15:01:03.694Z" :> 23 * 1440 + 15 * 60 + 1 @@
    "2025-08-25T09:30:00.000Z" :> 24 * 1440 + 9 * 60 + 30 @@
    "2025-09-01T08:00:00.000Z" :> 31 * 1440 + 8 * 60

\* the YYYY-MM-DD spelling of a calendar day, counted from 2025-08-01
Calendar ==
    23 :> "2025-08-24" @@ 24 :> "2025-08-25" @@
    30 :> "2025-08-31" @@ 31 :> "2025-09-01"

IsValidTimestamp(ts) == ts \in DOMAIN Instants

\* formatTimestampToLocalDate: Intl.DateTimeFormat without a timeZone option
\* formats the instant in the host's zone; format() throws a RangeError on
\* an Invalid Date.  toISOString().split('T')[0] of the earlier revision
\* gives the UTC day instead.
formatTimestampToUTCDate(ts) == Calendar[Instants[ts] \div 1440]
formatTimestampToLocalDate(ts) == Calendar[(Instants[ts] + timeZone * 60) \div 1440]

\* -------------------------------------------------------- telemetry records
Attrs(members) == Obj(<<Member("attributes", Obj(members))>>)

\* The log records the wrapped CLI may write.  form "pretty" is the whole
\* pretty-printed record, "truncated" its first `cut` lexemes (a write that
\* was interrupted).
Rec(form, value, cut) == [form |-> form, value |-> value, cut |-> cut]

ApiFlash ==
    Attrs(<< Member("event.name", Str(API_RESPONSE)),
             Member("event.timestamp", Str("2025-08-24T15:01:03.694Z")),
             Member("model", Str("gemini-flash")),
             Member("input_token_count", Num(3)),
             Member("output_token_count", Num(2)),
             Member("cached_content_token_count", Num(5)),
             Member("thoughts_token_count", Num(1)),
             Member("tool_token_count", Num(1)) >>)

ApiUnknown ==
    Attrs(<< Member("event.name", Str(API_RESPONSE)),
             Member("event.timestamp", Str("2025-08-25T09:30:00.000Z")),
             Member("model", Str("totally-unknown-model")),
             Member("input_token_count", Num(4)),
             Member("output_token_count", Num(1)) >>)

ApiBadDate ==
    Attrs(<< Member("event.name", Str(API_RESPONSE)),
             Member("event.timestamp", Str("not-a-date")),
             Member("model", Str("gemini-flash")),
             Member("input_token_count", Num(1)) >>)

ApiNoModel ==
    Attrs(<< Member("event.name", Str(API_RESPONSE)),
             Member("event.timestamp", Str("2025-08-24T15:01:03.694Z")),
             Member("input_token_count", Num(2)) >>)

ConfigEvent ==
    Attrs(<< Member("event.name", Str("gemini_cli.config")),
             Member("event.timestamp", Str("2025-08-24T15:01:03.694Z")),
             Member("model", Str("gemini-flash")),
             Member("input_token_count", Num(7)),
             Member("output_token_count", Num(7)) >>)

NoAttributes ==
    Obj(<< Member("event.name", Str(API_RESPONSE)),
           Member("event.timestamp", Str("2025-08-24T15:01:03.694Z")),
           Member("model", Str("gemini-flash")),
           Member("input_token_count", Num(9)) >>)

\* API responses whose projection the schema rejects
ApiNegative ==
    Attrs(<< Member("event.name", Str(API_RESPONSE)),
             Member("event.timestamp", Str("2025-08-24T15:01:03.694Z")),
             Member("model", Str("gemini-flash")),
             Member("input_token_count", Num(0 - 1)),
             Member("output_token_count", Num(2)) >>)

ApiFraction ==
    Attrs(<< Member("event.name", Str(API_RESPONSE)),
             Member("event.timestamp", Str("2025-08-24T15:01:03.694Z")),
             Member("model", Str("gemini-flash")),
             Member("input_token_count", Num(3)),
             Member("output_token_count", Frac) >>)

ApiStringCount ==
    Attrs(<< Member("event.name", Str(API_RESPONSE)),
             Member("event.timestamp", Str("2025-08-24T15:01:03.694Z")),
             Member("model", Str("gemini-flash")),
             Member("cached_content_token_count", Str("12")) >>)

\* an API response without event.timestamp
ApiNoTimestamp ==
    Attrs(<< Member("event.name", Str(API_RESPONSE)),
             Member("model", Str("gemini-flash")),
             Member("input_token_count", Num(6)) >>)

\* a blank line
Blank == Obj(<<>>)

InvalidJson ==
    Attrs(<< Member("event.name", Str(API_RESPONSE)),
             Member("invalid", Bare) >>)

Text(r) ==
    IF r.form = "pretty" THEN PrettyObj(r.value.members, 0)
    ELSE IF r.form = "blank" THEN <<SP>>
    ELSE SubSeq(PrettyObj(r.value.members, 0), 1, r.cut)

\* lexemes of a pretty-printed ApiFlash record before its last line "}"
CutBeforeLastLine == Len(PrettyObj(ApiFlash.members, 0)) - 2
\* lexemes up to and including the comma after its third attribute
CutInsideAttributes ==
    Len(PrettyObj(Attrs(SubSeq(ApiFlash.members[1].v.members, 1, 3)).members, 0)) - 4

RecordKinds == {
    Rec("pretty", ApiFlash, 0),
    Rec("pretty", ApiUnknown, 0),
    Rec("pretty", ApiBadDate, 0),
    Rec("pretty", ApiNoModel, 0),
    Rec("pretty", ConfigEvent, 0),
    Rec("pretty", NoAttributes, 0),
    Rec("pretty", InvalidJson, 0),
    Rec("truncated", ApiFlash, CutInsideAttributes),
    Rec("truncated", ApiFlash, CutBeforeLastLine) }

ApiPro ==
    Attrs(<< Member("event.name", Str(API_RESPONSE)),
             Member("event.timestamp", Str("2025-08-24T15:01:03.694Z")),
             Member("model", Str("gemini-pro")),
             Member("input_token_count", Num(2)),
             Member("output_token_count", Num(3)),
             Member("cached_content_token_count", Num(1)) >>)

ApiSept ==
    Attrs(<< Member("event.name", Str(API_RESPONSE)),
             Member("event.timestamp", Str("2025-09-01T08:00:00.000Z")),
             Member("model", Str("gemini-flash")),
             Member("input_token_count", Num(1)),
             Member("output_token_count", Num(1)),
             Member("cached_content_token_count", Num(2)) >>)

\* what may be written to the file of a daily or monthly report
ReportRecordKinds == {
    Rec("pretty", ApiFlash, 0),
    Rec("pretty", ApiUnknown, 0),
    Rec("pretty", ApiPro, 0),
    Rec("pretty", ApiSept, 0),
    Rec("pretty", ApiNoModel, 0) }

\* what may be written to the file whose parsing alone is examined
ParseRecordKinds == {
    Rec("pretty", ApiFlash, 0),
    Rec("pretty", ApiNegative, 0),
    Rec("pretty", ApiFraction, 0),
    Rec("pretty", ApiStringCount, 0),
    Rec("pretty", ApiNoTimestamp, 0),
    Rec("pretty", ApiNoModel, 0),
    Rec("pretty", ApiBadDate, 0),
    Rec("pretty", InvalidJson, 0),
    Rec("blank", Blank, 0) }

\* ---------------------------------------------------------------- extraction
\* value ?? 0 of an optional token count
CountOrZero(v) == IF v.vt = "num" THEN v.n ELSE 0

\* the guard of line 266
HasModelAndTimestamp(event) ==
    /\ event.model.vt = "str" /\ event.model.s /= ""
    /\ event.timestamp.vt = "str" /\ event.timestamp.s /= ""

\* costResult of lines 276-284
costOfEvent(event, pricing) ==
    calculateCost(getModelPricing(pricing, event.model.s),
                  CountOrZero(event.inputTokens), CountOrZero(event.outputTokens),
                  CountOrZero(event.cachedTokens), CountOrZero(event.thoughtsTokens),
                  CountOrZero(event.toolTokens))

\* a push that counts the tokens only of events that have a cost
usageOfEventPricedOnly(event, cost) ==
    [model |-> event.model.s,
     date |-> formatTimestampToLocalDate(event.timestamp.s),
     inputTokens |-> IF cost = None THEN 0 ELSE CountOrZero(event.inputTokens),
     outputTokens |-> IF cost = None THEN 0 ELSE CountOrZero(event.outputTokens),
     cacheCreationTokens |-> 0,
     cacheReadTokens |-> IF cost = None THEN 0 ELSE CountOrZero(event.cachedTokens),
     cost |-> IF cost = None THEN 0 ELSE cost[1].totalCost]

\* the record pushed at lines 287-295
usageOfEvent(event, cost) ==
    [model |-> event.model.s,
     date |-> formatTimestampToLocalDate(event.timestamp.s),
     inputTokens |-> CountOrZero(event.inputTokens),
     outputTokens |-> CountOrZero(event.outputTokens),
     cacheCreationTokens |-> 0,
     cacheReadTokens |-> CountOrZero(event.cachedTokens),
     cost |-> IF cost = None THEN 0 ELSE cost[1].totalCost]

\* ------------------------------------------------------------ date strings
\* the name of the string spelled chars
NameOf(chars) == CHOOSE n \in DOMAIN Chars : Chars[n] = chars

\* String.prototype.substring(start, end)
substring(s, start, end) ==
    SubSeq(s, start + 1, IF end < Len(s) THEN end ELSE Len(s))

\* replace(/-/g, '')
removeHyphens(s) == SelectSeq(s, LAMBDA ch : ch /= "-")

\* UTF-16 code unit of the characters date strings use
CodeUnit(ch) ==
    CASE ch = "-" -> 45 [] ch = "." -> 46
      [] ch = "0" -> 48 [] ch = "1" -> 49 [] ch = "2" -> 50 [] ch = "3" -> 51
      [] ch = "4" -> 52 [] ch = "5" -> 53 [] ch = "6" -> 54 [] ch = "7" -> 55
      [] ch = "8" -> 56 [] ch = "9" -> 57 [] ch = ":" -> 58
      [] ch = "T" -> 84 [] ch = "Z" -> 90

\* a < b on strings: the first differing code unit decides, a proper prefix
\* is smaller
StrLess(a, b) ==
    \E i \in 1..Len(b) :
        /\ i <= Len(a) + 1
        /\ SubSeq(a, 1, i - 1) = SubSeq(b, 1, i - 1)
        /\ i = Len(a) + 1 \/ CodeUnit(a[i]) < CodeUnit(b[i])

\* the getDate argument of the callers: item => item.date for the items of
\* the tests and for daily buckets, item => item.month for monthly buckets
getDate(item) == IF "key" \in DOMAIN item THEN item.key ELSE item.date

\* a filter whose bounds are exclusive
filterByDateRangeExclusive(items, sinceArg, untilArg) ==
    IF sinceArg = None /\ untilArg = None THEN items
    ELSE SelectSeq(items, LAMBDA item :
            LET dateStr == removeHyphens(substring(Chars[getDate(item)], 0, 10))
            IN  /\ ~(sinceArg /= None /\ ~StrLess(removeHyphens(Chars[sinceArg[1]]), dateStr))
                /\ ~(untilArg /= None /\ ~StrLess(dateStr, removeHyphens(Chars[untilArg[1]]))))

\* filterByDateRange (part_003 lines 27-51); since and until are None when
\* absent
filterByDateRange(items, sinceArg, untilArg) ==
    IF sinceArg = None /\ untilArg = None THEN items
    ELSE SelectSeq(items, LAMBDA item :
            LET dateStr == removeHyphens(substring(Chars[getDate(item)], 0, 10))
            IN  /\ ~(sinceArg /= None /\ StrLess(dateStr, removeHyphens(Chars[sinceArg[1]])))
                /\ ~(untilArg /= None /\ StrLess(removeHyphens(Chars[untilArg[1]]), dateStr)))

\* ------------------------------------------------------------------ totals
ZeroTotals ==
    [inputTokens |-> 0, outputTokens |-> 0, cacheCreationTokens |-> 0,
     cacheReadTokens |-> 0, totalCost |-> 0]

\* a reducer that forgets the cache-creation tokens
addToTotalsNoCreation(acc, item) ==
    [inputTokens |-> acc.inputTokens + item.inputTokens,
     outputTokens |-> acc.outputTokens + item.outputTokens,
     cacheCreationTokens |-> acc.cacheCreationTokens,
     cacheReadTokens |-> acc.cacheReadTokens + item.cacheReadTokens,
     totalCost |-> acc.totalCost + item.totalCost]

\* the reducer of calculateTotals (lines 416-422)
addToTotals(acc, item) ==
    [inputTokens |-> acc.inputTokens + item.inputTokens,
     outputTokens |-> acc.outputTokens + item.outputTokens,
     cacheCreationTokens |-> acc.cacheCreationTokens + item.cacheCreationTokens,
     cacheReadTokens |-> acc.cacheReadTokens + item.cacheReadTokens,
     totalCost |-> acc.totalCost + item.totalCost]

\* Array.prototype.reduce with addToTotals
RECURSIVE reduceTotals(_, _)
reduceTotals(data, acc) ==
    IF data = <<>> THEN acc
    ELSE reduceTotals(Tail(data), addToTotals(acc, Head(data)))

calculateTotals(data) == reduceTotals(data, ZeroTotals)

\* ----------------------------------------------------------------- rollups
\* A bucket of a report.  `key` is the field `date` of a DailyUsage and the
\* field `month` of a MonthlyUsage; the entries of dailyMap / monthlyMap
\* carry the Set `models` as the sequence of its members in insertion order.
EmptyEntry(key) ==
    [key |-> key, inputTokens |-> 0, outputTokens |-> 0, cacheCreationTokens |-> 0,
     cacheReadTokens |-> 0, totalCost |-> 0, models |-> <<>>]

\* Set.prototype.add
SetAdd(members, x) ==
    IF \E i \in DOMAIN members : members[i] = x THEN members ELSE Append(members, x)

\* a loop body that stores the latest record instead of adding it
accumulateLastWins(map, key, data) ==
    LET hits == {i \in DOMAIN map : map[i].key = key}
        updated == [EmptyEntry(key) EXCEPT
                      !.inputTokens = data.inputTokens,
                      !.outputTokens = data.outputTokens,
                      !.cacheCreationTokens = data.cacheCreationTokens,
                      !.cacheReadTokens = data.cacheReadTokens,
                      !.totalCost = data.cost,
                      !.models = <<data.model>>]
    IN  IF hits = {} THEN Append(map, updated)
        ELSE [map EXCEPT ![Min(hits)] = updated]

\* the body of the grouping loop (lines 320-336, 375-391): get or create the
\* entry of the key, add the record to it, set it
accumulate(map, key, data) ==
    LET hits == {i \in DOMAIN map : map[i].key = key}
        existing == IF hits = {} THEN EmptyEntry(key) ELSE map[Min(hits)]
        updated == [existing EXCEPT
                      !.inputTokens = @ + data.inputTokens,
                      !.outputTokens = @ + data.outputTokens,
                      !.cacheCreationTokens = @ + data.cacheCreationTokens,
                      !.cacheReadTokens = @ + data.cacheReadTokens,
                      !.totalCost = @ + data.cost,
                      !.models = SetAdd(@, data.model)]
    IN  IF hits = {} THEN Append(map, updated)
        ELSE [map EXCEPT ![Min(hits)] = updated]

\* a month key that keeps the whole date
monthOfWholeDate(date) == date

\* data.date.substring(0, 7)
monthOf(date) == NameOf(substring(Chars[date], 0, 7))

\* the key a record is grouped under
bucketKey(kind, date) == IF kind = "monthly" THEN monthOf(date) ELSE date

\* for (const data of usageData) { ... }
RECURSIVE groupUsage(_, _, _)
groupUsage(kind, data, map) ==
    IF data = <<>> THEN map
    ELSE groupUsage(kind, Tail(data),
                    accumulate(map, bucketKey(kind, Head(data).date), Head(data)))

\* Array.from(map.entries()).map(...)
toBucket(entry) ==
    [key |-> entry.key, inputTokens |-> entry.inputTokens,
     outputTokens |-> entry.outputTokens,
     cacheCreationTokens |-> entry.cacheCreationTokens,
     cacheReadTokens |-> entry.cacheReadTokens, totalCost |-> entry.totalCost,
     modelsUsed |-> entry.models]

\* a.key.localeCompare(b.key) < 0; keys of one report have the same shape
\* (digits and hyphens at the same positions), on which the collation
\* order is the code-unit order
localeCompareLess(a, b) == StrLess(Chars[a], Chars[b])

\* Array.prototype.sort with that comparator: a stable sort
RECURSIVE insertSorted(_, _)
insertSorted(sorted, item) ==
    IF sorted = <<>> THEN <<item>>
    ELSE IF localeCompareLess(item.key, Head(sorted).key) THEN <<item>> \o sorted
    ELSE <<Head(sorted)>> \o insertSorted(Tail(sorted), item)

RECURSIVE sortFrom(_, _)
sortFrom(items, sorted) ==
    IF items = <<>> THEN sorted
    ELSE sortFrom(Tail(items), insertSorted(sorted, Head(items)))

\* a report that leaves the buckets in the order of the map
sortBucketsInsertionOrder(buckets) == buckets

sortBuckets(buckets) == sortFrom(buckets, <<>>)

\* loadDailyUsageData / loadMonthlyUsageData once usageData is extracted
\* (lines 309-353, 363-408)
loadUsageData(kind, data, sinceArg, untilArg) ==
    LET map == groupUsage(kind, data, <<>>)
        buckets == [i \in DOMAIN map |-> toBucket(map[i])]
    IN  filterByDateRange(sortBuckets(buckets), sinceArg, untilArg)

\* the since / until arguments the reports are run with
SinceChoices == {None, Some("20250825")}
UntilChoices == {None, Some("2025-08-25")}

\* ------------------------------------------------------------------- state
VARIABLES
    snapshot,        \* value of prefetchGeminiPricing() bundled at build time
    pricingCache,    \* module variable pricingCache: None or Some(catalog)
    calls,           \* the getModelPricing calls of the live display
    fetchesIssued,   \* number of fetch(LITELLM_PRICING_URL) requests sent
    cacheWrites,     \* number of assignments to pricingCache
    onlineLookups,   \* TRUE once a lookup was made with offline = false
    content,         \* content of the telemetry file
    written,         \* the records written to it, in order
    phase,           \* position of the batch report
    offline,         \* the report's offline flag
    events,          \* result of parseTelemetryContent
    exIdx,           \* index of the event the extraction loop is at
    costResult,      \* costResult of the latest loop iteration
    usageData,       \* usageData of extractUsageFromTelemetry
    parseThrew,      \* TRUE when parseTelemetryContent raised an exception
    reportKind,      \* "daily" or "monthly" once a report has been returned
    since,           \* the report's since argument (None when absent)
    until,           \* the report's until argument (None when absent)
    report,          \* the buckets the report returned
    filterItems,     \* items argument of the latest filterByDateRange call
    filterSince,     \* its since argument
    filterUntil,     \* its until argument
    filtered,        \* its result
    totalsData,      \* data argument of the latest calculateTotals call
    totals,          \* its result
    firstReport,     \* None, or Some(buckets of the first report of the process)
    watching,        \* TelemetryWatcher.watching
    watchInterval,   \* TelemetryWatcher.watchInterval: TRUE when it holds a timer
    activeTimers,    \* number of interval timers that have not been cleared
    lastPosition,    \* TelemetryWatcher.lastPosition
    partialData,     \* TelemetryWatcher.partialData
    emitted,         \* the events the watcher has emitted, in order
    baseDirExists,   \* existsSync(baseDir)
    baseDir,         \* the entries of baseDir in readdirSync order
    loaded,          \* None, or Some(completion of loadTelemetryData)
    constructed,     \* TRUE once the StatsDisplay has been constructed
    stats,           \* StatsDisplay.stats: None or Some(ModelStats) per model
    costArgs,        \* arguments of the updateCost call suspended on lookup c
    updatesDone,     \* number of update calls made on the display
    apiCalls         \* number of updateApiResponse calls made per model

pricingVars == <<snapshot, pricingCache, fetchesIssued, cacheWrites, onlineLookups>>
reportVars == <<reportKind, since, until, report>>
utilVars == <<filterItems, filterSince, filterUntil, filtered, totalsData, totals>>
batchVars == <<content, written, phase, offline, timeZone, events, parseThrew, exIdx,
               costResult, usageData, reportVars, utilVars>>
\* the variables of the later sections, which the actions up to TotalsSpec
\* leave alone
watcherVars == <<watching, watchInterval, activeTimers, lastPosition, partialData, emitted>>
loaderVars == <<baseDirExists, baseDir, loaded>>
displayVars == <<constructed, stats, costArgs, updatesDone, apiCalls>>
liveVars == <<firstReport, watcherVars, loaderVars, displayVars>>
vars == <<snapshot, pricingCache, calls, fetchesIssued, cacheWrites, onlineLookups,
          content, written, phase, offline, events, parseThrew, exIdx, costResult,
          usageData, reportKind, since, until, report,
          filterItems, filterSince, filterUntil, filtered, totalsData, totals,
          timeZone, liveVars>>

CallIds == 1..MaxCalls

IdleCall ==
    [pc |-> "idle", offline |-> FALSE, modelName |-> "gemini", failed |-> FALSE,
     pricing |-> None, result |-> None]

Init ==
    /\ snapshot \in Snapshots
    /\ pricingCache = None
    /\ calls = [c \in CallIds |-> IdleCall]
    /\ fetchesIssued = 0
    /\ cacheWrites = 0
    /\ onlineLookups = FALSE
    /\ content = <<>>
    /\ written = <<>>
    /\ phase = "writing"
    /\ offline = FALSE
    /\ events = <<>>
    /\ exIdx = 1
    /\ costResult = None
    /\ usageData = <<>>
    /\ parseThrew = FALSE
    /\ reportKind = "none"
    /\ since = None
    /\ until = None
    /\ report = <<>>
    /\ filterItems = <<>>
    /\ filterSince = None
    /\ filterUntil = None
    /\ filtered = <<>>
    /\ totalsData = <<>>
    /\ totals = ZeroTotals
    /\ timeZone = 0
    /\ firstReport = None
    /\ watching = FALSE
    /\ watchInterval = FALSE
    /\ activeTimers = 0
    /\ lastPosition = 0
    /\ partialData = <<>>
    /\ emitted = <<>>
    /\ baseDirExists = FALSE
    /\ baseDir = <<>>
    /\ loaded = None
    /\ constructed = FALSE
    /\ stats = [m \in ConcurrentNames |-> None]
    /\ costArgs = [c \in CallIds |-> None]
    /\ updatesDone = 0
    /\ apiCalls = [m \in ConcurrentNames |-> 0]

\* ------------------------------------------------- concurrent pricing lookups
\* the call returns: `pricing` is the map fetchPricingData handed back
Finish(call, pricing) ==
    [call EXCEPT !.pc = "done", !.pricing = Some(pricing),
                 !.result = getModelPricing(pricing, call.modelName)]

\* getModelPricing(modelName, offline) is called while pricingCache is set:
\* fetchPricingData returns the cache (lines 48-50)
CallCached(c, modelName, off) ==
    /\ calls[c].pc = "idle"
    /\ pricingCache /= None
    /\ calls' = [calls EXCEPT ![c] =
                    Finish([IdleCall EXCEPT !.offline = off, !.modelName = modelName],
                           pricingCache[1])]
    /\ onlineLookups' = (onlineLookups \/ ~off)
    /\ UNCHANGED <<snapshot, pricingCache, fetchesIssued, cacheWrites>>
    /\ UNCHANGED <<batchVars, liveVars>>

\* a call that ignores its offline flag and sends the request
CallOfflineFetching(c, modelName) ==
    /\ calls[c].pc = "idle"
    /\ pricingCache = None
    /\ calls' = [calls EXCEPT ![c] =
                    [IdleCall EXCEPT !.pc = "fetch", !.offline = TRUE,
                                     !.modelName = modelName]]
    /\ fetchesIssued' = fetchesIssued + 1
    /\ UNCHANGED <<snapshot, pricingCache, cacheWrites, onlineLookups>>
    /\ UNCHANGED <<batchVars, liveVars>>

\* called offline with no cache: suspends on `await prefetchGeminiPricing()`
CallOffline(c, modelName) ==
    /\ calls[c].pc = "idle"
    /\ pricingCache = None
    /\ calls' = [calls EXCEPT ![c] =
                    [IdleCall EXCEPT !.pc = "prefetch", !.offline = TRUE,
                                     !.modelName = modelName]]
    /\ UNCHANGED pricingVars
    /\ UNCHANGED <<batchVars, liveVars>>

\* called online with no cache: sends the request and suspends on it
CallFetchStep(c, modelName) ==
    /\ calls[c].pc = "idle"
    /\ pricingCache = None
    /\ calls' = [calls EXCEPT ![c] =
                    [IdleCall EXCEPT !.pc = "fetch", !.modelName = modelName]]
    /\ fetchesIssued' = fetchesIssued + 1
    /\ onlineLookups' = TRUE
    /\ UNCHANGED <<snapshot, pricingCache, cacheWrites>>

CallFetch(c, modelName) ==
    /\ CallFetchStep(c, modelName)
    /\ UNCHANGED <<batchVars, liveVars>>

\* the offline branch resumes (lines 55-66)
OfflineResume(c) ==
    /\ calls[c].pc = "prefetch"
    /\ LET pricing == OfflineCatalog(snapshot)
       IN  /\ pricingCache' = Some(pricing)
           /\ calls' = [calls EXCEPT ![c] = Finish(calls[c], pricing)]
    /\ cacheWrites' = cacheWrites + 1
    /\ UNCHANGED <<snapshot, fetchesIssued, onlineLookups>>
    /\ UNCHANGED <<batchVars, liveVars>>

\* the request succeeds with document `data` (lines 77-119)
FetchOkStep(c, data) ==
    /\ calls[c].pc = "fetch"
    /\ LET pricing == RemoteCatalog(data)
       IN  /\ pricingCache' = Some(pricing)
           /\ calls' = [calls EXCEPT ![c] = Finish(calls[c], pricing)]
    /\ cacheWrites' = cacheWrites + 1
    /\ UNCHANGED <<snapshot, fetchesIssued, onlineLookups>>

FetchOk(c, data) ==
    /\ FetchOkStep(c, data)
    /\ UNCHANGED <<batchVars, liveVars>>

\* the request is rejected or answers with a non-success status: the catch
\* block is entered and suspends on `await prefetchGeminiPricing()`
FetchFail(c) ==
    /\ calls[c].pc = "fetch"
    /\ calls' = [calls EXCEPT ![c].pc = "fallback", ![c].failed = TRUE]
    /\ UNCHANGED pricingVars
    /\ UNCHANGED <<batchVars, liveVars>>

\* the earlier revision's catch block: the experimental table alone
FallbackExperimentalOnly(snap) == ExperimentalOnly

\* the catalog the catch block builds (lines 124-132)
FallbackCatalog(snap) == OfflineCatalog(snap)

\* the catch block resumes (lines 124-135)
FallbackResumeStep(c) ==
    /\ calls[c].pc = "fallback"
    /\ LET pricing == FallbackCatalog(snapshot)
       IN  /\ pricingCache' = Some(pricing)
           /\ calls' = [calls EXCEPT ![c] = Finish(calls[c], pricing)]
    /\ cacheWrites' = cacheWrites + 1
    /\ UNCHANGED <<snapshot, fetchesIssued, onlineLookups>>

FallbackResume(c) ==
    /\ FallbackResumeStep(c)
    /\ UNCHANGED <<batchVars, liveVars>>

\* the caller has consumed the result; the slot is free for a later lookup
Return(c) ==
    /\ calls[c].pc = "done"
    /\ calls' = [calls EXCEPT ![c] = IdleCall]
    /\ UNCHANGED pricingVars
    /\ UNCHANGED <<batchVars, liveVars>>

\* the live display: lookups for a few models, any interleaving
Next ==
    \/ \E c \in CallIds, m \in ConcurrentNames, o \in BOOLEAN : CallCached(c, m, o)
    \/ \E c \in CallIds, m \in ConcurrentNames : CallOffline(c, m)
    \/ \E c \in CallIds, m \in ConcurrentNames : CallFetch(c, m)
    \/ \E c \in CallIds : OfflineResume(c)
    \/ \E c \in CallIds, d \in RemoteDocs : FetchOk(c, d)
    \/ \E c \in CallIds : FetchFail(c)
    \/ \E c \in CallIds : FallbackResume(c)
    \/ \E c \in CallIds : Return(c)

Spec == Init /\ [][Next]_vars

\* one lookup at a time, for every model name
LookupNext ==
    \/ \E m \in ModelNames, o \in BOOLEAN : CallCached(1, m, o)
    \/ \E m \in ModelNames : CallOffline(1, m)
    \/ \E m \in ModelNames : CallFetch(1, m)
    \/ OfflineResume(1)
    \/ \E d \in RemoteDocs : FetchOk(1, d)
    \/ FetchFail(1)
    \/ FallbackResume(1)
    \/ Return(1)

LookupSpec == Init /\ [][LookupNext]_vars

\* ------------------------------------------------------------ batch report
\* the wrapped CLI appends a record and a newline to the telemetry file
WriteRecord(r) ==
    /\ phase = "writing"
    /\ Len(written) < MaxRecords
    /\ content' = content \o Text(r) \o <<NL>>
    /\ written' = Append(written, r)
    /\ UNCHANGED <<phase, offline, timeZone, events, parseThrew, exIdx, costResult, usageData>>
    /\ UNCHANGED pricingVars
    /\ UNCHANGED <<calls, reportVars, utilVars, liveVars>>

\* the report starts: loadTelemetryData reads and parses the file, then
\* extractUsageFromTelemetry(events, offline) is entered
RunReport(off, tz) ==
    /\ phase = "writing"
    /\ timeZone' = tz
    /\ LET completion == parseCompletion(content)
       IN  /\ parseThrew' = completion.thrown
           /\ events' = IF completion.thrown THEN <<>> ELSE completion.val
    /\ offline' = off
    /\ phase' = "extracting"
    /\ UNCHANGED <<content, written, exIdx, costResult, usageData>>
    /\ UNCHANGED pricingVars
    /\ UNCHANGED <<calls, reportVars, utilVars, liveVars>>

AtEvent == phase = "extracting" /\ exIdx <= Len(events)

\* loop iteration for an event without model or timestamp: nothing is pushed
ExtractSkip ==
    /\ AtEvent
    /\ ~HasModelAndTimestamp(events[exIdx])
    /\ exIdx' = exIdx + 1
    /\ UNCHANGED <<content, written, phase, offline, timeZone, events, parseThrew, costResult, usageData>>
    /\ UNCHANGED pricingVars
    /\ UNCHANGED <<calls, reportVars, utilVars, liveVars>>

\* loop iteration whose date formatting throws: the returned promise rejects
ExtractThrow ==
    /\ AtEvent
    /\ HasModelAndTimestamp(events[exIdx])
    /\ ~IsValidTimestamp(events[exIdx].timestamp.s)
    /\ phase' = "rejected"
    /\ UNCHANGED <<content, written, offline, timeZone, events, parseThrew, exIdx, costResult, usageData>>
    /\ UNCHANGED pricingVars
    /\ UNCHANGED <<calls, reportVars, utilVars, liveVars>>

CanPrice ==
    /\ AtEvent
    /\ HasModelAndTimestamp(events[exIdx])
    /\ IsValidTimestamp(events[exIdx].timestamp.s)

\* the rest of the iteration once fetchPricingData has returned `pricing`
PriceEvent(pricing) ==
    LET cost == costOfEvent(events[exIdx], pricing)
    IN  /\ costResult' = cost
        /\ usageData' = Append(usageData, usageOfEvent(events[exIdx], cost))
        /\ exIdx' = exIdx + 1
        /\ UNCHANGED <<content, written, phase, offline, timeZone, events, parseThrew>>
        /\ UNCHANGED <<calls, reportVars, utilVars, liveVars>>

\* loop iteration with the cache already set
ExtractCached ==
    /\ CanPrice
    /\ pricingCache /= None
    /\ PriceEvent(pricingCache[1])
    /\ UNCHANGED pricingVars

\* loop iteration, offline, no cache yet
ExtractOffline ==
    /\ CanPrice
    /\ pricingCache = None
    /\ offline
    /\ pricingCache' = Some(OfflineCatalog(snapshot))
    /\ cacheWrites' = cacheWrites + 1
    /\ PriceEvent(OfflineCatalog(snapshot))
    /\ UNCHANGED <<snapshot, fetchesIssued, onlineLookups>>

\* loop iteration, online, no cache yet, the request succeeds
ExtractFetchOkNoCacheCheck(data) ==
    /\ CanPrice
    /\ ~offline
    /\ pricingCache' = Some(RemoteCatalog(data))
    /\ cacheWrites' = cacheWrites + 1
    /\ fetchesIssued' = fetchesIssued + 1
    /\ onlineLookups' = TRUE
    /\ PriceEvent(RemoteCatalog(data))
    /\ UNCHANGED snapshot

ExtractFetchOk(data) ==
    /\ CanPrice
    /\ pricingCache = None
    /\ ~offline
    /\ pricingCache' = Some(RemoteCatalog(data))
    /\ cacheWrites' = cacheWrites + 1
    /\ fetchesIssued' = fetchesIssued + 1
    /\ onlineLookups' = TRUE
    /\ PriceEvent(RemoteCatalog(data))
    /\ UNCHANGED snapshot

\* loop iteration, online, no cache yet, the request fails
ExtractFetchFail ==
    /\ CanPrice
    /\ pricingCache = None
    /\ ~offline
    /\ pricingCache' = Some(FallbackCatalog(snapshot))
    /\ cacheWrites' = cacheWrites + 1
    /\ fetchesIssued' = fetchesIssued + 1
    /\ onlineLookups' = TRUE
    /\ PriceEvent(FallbackCatalog(snapshot))
    /\ UNCHANGED snapshot

\* the loop is over: usageData is returned
ExtractReturn ==
    /\ phase = "extracting"
    /\ exIdx > Len(events)
    /\ phase' = "extracted"
    /\ UNCHANGED <<content, written, offline, timeZone, events, parseThrew, exIdx, costResult, usageData>>
    /\ UNCHANGED pricingVars
    /\ UNCHANGED <<calls, reportVars, utilVars, liveVars>>

BatchNext ==
    \/ \E r \in RecordKinds : WriteRecord(r)
    \/ \E o \in BOOLEAN : RunReport(o, 0)
    \/ ExtractSkip
    \/ ExtractThrow
    \/ ExtractCached
    \/ ExtractOffline
    \/ \E d \in RemoteDocs : ExtractFetchOk(d)
    \/ ExtractFetchFail
    \/ ExtractReturn

BatchSpec == Init /\ [][BatchNext]_vars

\* the extraction loop is over: loadDailyUsageData (kind "daily") or
\* loadMonthlyUsageData (kind "monthly") groups usageData, sorts the buckets
\* and filters them by its since / until arguments, which it reads only here
ReportReturn(kind, sinceArg, untilArg) ==
    /\ phase = "extracting"
    /\ exIdx > Len(events)
    /\ phase' = "reported"
    /\ reportKind' = kind
    /\ since' = sinceArg
    /\ until' = untilArg
    /\ report' = loadUsageData(kind, usageData, sinceArg, untilArg)
    /\ UNCHANGED <<content, written, offline, timeZone, events, parseThrew, exIdx, costResult, usageData>>
    /\ UNCHANGED pricingVars
    /\ UNCHANGED <<calls, utilVars, liveVars>>

\* a daily or monthly report from the file to the returned buckets
ReportNext ==
    \/ \E r \in ReportRecordKinds : WriteRecord(r)
    \/ \E o \in BOOLEAN : RunReport(o, 0)
    \/ ExtractSkip
    \/ ExtractCached
    \/ ExtractOffline
    \/ \E d \in RemoteDocs : ExtractFetchOk(d)
    \/ ExtractFetchFail
    \/ \E k \in {"daily", "monthly"}, s \in SinceChoices, u \in UntilChoices :
          ReportReturn(k, s, u)

ReportSpec == Init /\ [][ReportNext]_vars

\* ------------------------------------------------------- filterByDateRange
\* the items of the calls: an id and a date, which may be a timestamp
Item(id, date) == [id |-> id, date |-> date]

FilterDates == {"2024-01-01", "2024-01-02", "2024-01-03", "2024-01-03T10:00:00Z",
                "2024-01-04", "2024-01-05"}

\* the five days of the repository's tests
testData ==
    << Item(1, "2024-01-01"), Item(2, "2024-01-02"), Item(3, "2024-01-03"),
       Item(4, "2024-01-04"), Item(5, "2024-01-05") >>

FilterSinceChoices == {None, Some("20240102"), Some("2024-01-02")}
FilterUntilChoices == {None, Some("20240104"), Some("2024-01-04")}

\* a caller builds the list of items
AddItem(date) ==
    /\ phase = "writing"
    /\ Len(filterItems) < MaxItems
    /\ filterItems' = Append(filterItems, Item(Len(filterItems) + 1, date))
    /\ UNCHANGED <<filterSince, filterUntil, filtered, totalsData, totals>>
    /\ UNCHANGED <<content, written, phase, offline, timeZone, events, parseThrew, exIdx, costResult,
                   usageData, reportVars>>
    /\ UNCHANGED pricingVars
    /\ UNCHANGED <<calls, liveVars>>

\* a caller takes the list of five days
LoadTestData ==
    /\ phase = "writing"
    /\ filterItems = <<>>
    /\ filterItems' = testData
    /\ UNCHANGED <<filterSince, filterUntil, filtered, totalsData, totals>>
    /\ UNCHANGED <<content, written, phase, offline, timeZone, events, parseThrew, exIdx, costResult,
                   usageData, reportVars>>
    /\ UNCHANGED pricingVars
    /\ UNCHANGED <<calls, liveVars>>

\* filterByDateRange(items, item => item.date, since, until) is called
ApplyFilter(sinceArg, untilArg) ==
    /\ phase = "writing"
    /\ phase' = "filtered"
    /\ filterSince' = sinceArg
    /\ filterUntil' = untilArg
    /\ filtered' = filterByDateRange(filterItems, sinceArg, untilArg)
    /\ UNCHANGED <<filterItems, totalsData, totals>>
    /\ UNCHANGED <<content, written, offline, timeZone, events, parseThrew, exIdx, costResult,
                   usageData, reportVars>>
    /\ UNCHANGED pricingVars
    /\ UNCHANGED <<calls, liveVars>>

FilterNext ==
    \/ \E d \in FilterDates : AddItem(d)
    \/ LoadTestData
    \/ \E s \in FilterSinceChoices, u \in FilterUntilChoices : ApplyFilter(s, u)

FilterSpec == Init /\ [][FilterNext]_vars

\* --------------------------------------------------------- calculateTotals
Bucket(key, inp, out, creation, read, cost) ==
    [key |-> key, inputTokens |-> inp, outputTokens |-> out,
     cacheCreationTokens |-> creation, cacheReadTokens |-> read,
     totalCost |-> cost, modelsUsed |-> <<"gemini-pro">>]

\* buckets a caller may hand to calculateTotals
BucketChoices == {
    Bucket("2024-01-01", 100, 50, 10, 5, 6),
    Bucket("2024-01-02", 200, 75, 15, 10, 8),
    Bucket("2024-01-03", 0, 0, 0, 0, 0),
    Bucket("2025-08", 1000, 500, 100, 50, 60) }

\* a caller builds the list of buckets
AddBucket(bucket) ==
    /\ phase = "writing"
    /\ Len(totalsData) < MaxBuckets
    /\ totalsData' = Append(totalsData, bucket)
    /\ UNCHANGED <<filterItems, filterSince, filterUntil, filtered, totals>>
    /\ UNCHANGED <<content, written, phase, offline, timeZone, events, parseThrew, exIdx, costResult,
                   usageData, reportVars>>
    /\ UNCHANGED pricingVars
    /\ UNCHANGED <<calls, liveVars>>

\* calculateTotals(data) is called
ApplyTotals ==
    /\ phase = "writing"
    /\ phase' = "totalled"
    /\ totals' = calculateTotals(totalsData)
    /\ UNCHANGED <<filterItems, filterSince, filterUntil, filtered, totalsData>>
    /\ UNCHANGED <<content, written, offline, timeZone, events, parseThrew, exIdx, costResult,
                   usageData, reportVars>>
    /\ UNCHANGED pricingVars
    /\ UNCHANGED <<calls, liveVars>>

TotalsNext ==
    \/ \E b \in BucketChoices : AddBucket(b)
    \/ ApplyTotals

TotalsSpec == Init /\ [][TotalsNext]_vars

\* the parser alone: a file is written and loadTelemetryData parses it
ParseNext ==
    \/ \E r \in ParseRecordKinds : WriteRecord(r)
    \/ \E o \in BOOLEAN : RunReport(o, 0)

ParseSpec == Init /\ [][ParseNext]_vars

TypeOK ==
    /\ pricingCache = None \/ Len(pricingCache) = 1
    /\ \A c \in CallIds : calls[c].pc \in {"idle", "prefetch", "fetch", "fallback", "done"}
    /\ fetchesIssued \in 0..MaxCalls
    /\ cacheWrites \in 0..MaxCalls
    /\ phase \in {"writing", "extracting", "extracted", "rejected", "reported",
                 "filtered", "totalled"}
    /\ Len(written) <= MaxRecords

\* ================================================================== claims
DoneCalls == {c \in CallIds : calls[c].pc = "done"}

\* the record stored under the key spelled s, if any
RecordAt(catalog, s) ==
    IF \E i \in DOMAIN catalog : Chars[catalog[i].key] = s
    THEN Some(catalog[CHOOSE i \in DOMAIN catalog : Chars[catalog[i].key] = s].pricing)
    ELSE None

\* the keys of the catalog that the scan of step 4 accepts for a name
ScanMatches(catalog, name) ==
    {i \in DOMAIN catalog :
        /\ includes(toLowerCase(Chars[catalog[i].key]), Chars["gemini"])
        /\ \/ includes(toLowerCase(name), toLowerCase(Chars[catalog[i].key]))
           \/ includes(toLowerCase(Chars[catalog[i].key]), toLowerCase(name))}

\* the keys of the experimental table that the scan of step 5 accepts
ExperimentalMatches(name) ==
    {i \in DOMAIN EXPERIMENTAL_MODELS :
        \/ includes(name, Chars[EXPERIMENTAL_MODELS[i].key])
        \/ includes(Chars[EXPERIMENTAL_MODELS[i].key], name)}

\* what each resolution step finds, in the order of the claim:
\* (1) exact key, (2) google/, vertex_ai/, gemini/ prefixed key,
\* (3) experimental exact, (4) catalog scan, (5) experimental scan
StepResults(catalog, modelName) ==
    LET name == Chars[modelName]
    IN  << RecordAt(catalog, name),
           RecordAt(catalog, Chars["google/"] \o name),
           RecordAt(catalog, Chars["vertex_ai/"] \o name),
           RecordAt(catalog, Chars["gemini/"] \o name),
           RecordAt(EXPERIMENTAL_MODELS, name),
           IF ScanMatches(catalog, name) = {} THEN None
           ELSE Some(catalog[Min(ScanMatches(catalog, name))].pricing),
           IF ExperimentalMatches(name) = {} THEN None
           ELSE Some(EXPERIMENTAL_MODELS[Min(ExperimentalMatches(name))].pricing) >>

FirstMatch(results) ==
    IF \A i \in DOMAIN results : results[i] = None THEN None
    ELSE results[Min({i \in DOMAIN results : results[i] /= None})]

\* C1: getModelPricing returns the record of the first resolution step that
\* matches, in the order exact key, google/ vertex_ai/ gemini/ prefixed key,
\* experimental exact key, catalog scan, experimental scan, and null only
\* when no step matches.
C1_FirstMatchingStep ==
    \A c \in DoneCalls :
        calls[c].result = FirstMatch(StepResults(calls[c].pricing[1], calls[c].modelName))

\* a lookup has returned the record of an earlier step although a later
\* step matches a different record
C1_Witness ==
    \E c \in DoneCalls :
        LET results == StepResults(calls[c].pricing[1], calls[c].modelName)
        IN  /\ calls[c].result /= None
            /\ calls[c].result = results[3]
            /\ \E j \in 4..7 : results[j] /= None /\ results[j] /= calls[c].result

\* no exact, prefixed or experimental-exact match
NoExactMatch(catalog, modelName) ==
    \A i \in 1..5 : StepResults(catalog, modelName)[i] = None

\* C2: when no exact, prefixed or experimental-exact match exists, the
\* catalog scan returns the record of the first matching catalog key in
\* insertion order, even when a later key is a longer match.
C2_FirstInIterationOrder ==
    \A c \in DoneCalls :
        LET catalog == calls[c].pricing[1]
            hits == ScanMatches(catalog, Chars[calls[c].modelName])
        IN  (NoExactMatch(catalog, calls[c].modelName) /\ hits /= {})
            => calls[c].result = Some(catalog[Min(hits)].pricing)

\* a scan has returned the first matching key's record while a later,
\* longer key with another record matches too
C2_Witness ==
    \E c \in DoneCalls :
        LET catalog == calls[c].pricing[1]
            hits == ScanMatches(catalog, Chars[calls[c].modelName])
        IN  /\ NoExactMatch(catalog, calls[c].modelName)
            /\ calls[c].modelName = "my-gemini-model-custom"
            /\ \E i \in hits, j \in hits :
                  /\ i < j
                  /\ Len(Chars[catalog[j].key]) > Len(Chars[catalog[i].key])
                  /\ catalog[i].pricing /= catalog[j].pricing
                  /\ calls[c].result = Some(catalog[i].pricing)

\* the events among the first n that pass the guard of the extraction loop
Extractable(n) == SelectSeq(SubSeq(events, 1, n), HasModelAndTimestamp)

Unresolvable(modelName) ==
    FirstMatch(StepResults(pricingCache[1], modelName)) = None

\* C3: for a model name that no resolution step matches, calculateCost
\* returns null and extractUsageFromTelemetry still emits the event's record
\* with cost 0 and its input, output and cache-read tokens unchanged.
C3_UnknownModelCostsZero ==
    /\ Len(usageData) = Len(Extractable(exIdx - 1))
    /\ \A j \in DOMAIN usageData :
          LET event == Extractable(exIdx - 1)[j]
          IN  Unresolvable(event.model.s)
              => /\ usageData[j].model = event.model.s
                 /\ usageData[j].cost = 0
                 /\ usageData[j].inputTokens = CountOrZero(event.inputTokens)
                 /\ usageData[j].outputTokens = CountOrZero(event.outputTokens)
                 /\ usageData[j].cacheReadTokens = CountOrZero(event.cachedTokens)
    /\ (exIdx > 1 /\ HasModelAndTimestamp(events[exIdx - 1])
          /\ Unresolvable(events[exIdx - 1].model.s))
       => costResult = None

\* the extraction has returned a record for an unknown model
C3_Witness ==
    /\ phase = "extracted"
    /\ \E j \in DOMAIN usageData :
          /\ usageData[j].model = "totally-unknown-model"
          /\ Unresolvable(usageData[j].model)
          /\ usageData[j].cost = 0
          /\ usageData[j].inputTokens = 4
          /\ usageData[j].outputTokens = 1

\* the latest loop iteration priced an event
LastEventPriced == exIdx > 1 /\ HasModelAndTimestamp(events[exIdx - 1])

\* C4: for a resolved pricing record, calculateCost charges input tokens at
\* inputCostPerToken, output, thoughts and tool tokens at outputCostPerToken,
\* cached tokens at cachedCostPerToken when it is present (also when it is
\* 0) and at inputCostPerToken * 0.25 only when it is absent; totalCost is
\* the sum of the five.  Costs are in 1/CacheMultDen price units.
C4_CostFormula ==
    LastEventPriced =>
        LET event == events[exIdx - 1]
            resolved == FirstMatch(StepResults(pricingCache[1], event.model.s))
        IN  resolved /= None =>
               /\ costResult /= None
               /\ costResult[1].inputCost =
                     CacheMultDen * CountOrZero(event.inputTokens) * resolved[1].inputCostPerToken
               /\ costResult[1].outputCost =
                     CacheMultDen * CountOrZero(event.outputTokens) * resolved[1].outputCostPerToken
               /\ costResult[1].thoughtsCost =
                     CacheMultDen * CountOrZero(event.thoughtsTokens) * resolved[1].outputCostPerToken
               /\ costResult[1].toolCost =
                     CacheMultDen * CountOrZero(event.toolTokens) * resolved[1].outputCostPerToken
               /\ resolved[1].cachedCostPerToken /= None =>
                     costResult[1].cachedCost =
                        CacheMultDen * CountOrZero(event.cachedTokens)
                           * resolved[1].cachedCostPerToken[1]
               /\ resolved[1].cachedCostPerToken = None =>
                     costResult[1].cachedCost =
                        CacheMultNum * CountOrZero(event.cachedTokens)
                           * resolved[1].inputCostPerToken
               /\ costResult[1].totalCost =
                     costResult[1].inputCost + costResult[1].outputCost
                     + costResult[1].cachedCost + costResult[1].thoughtsCost
                     + costResult[1].toolCost

\* an event with cached tokens was priced with a record whose
\* cachedCostPerToken is present and 0 and whose input cost is not
C4_Witness ==
    /\ LastEventPriced
    /\ CountOrZero(events[exIdx - 1].cachedTokens) > 0
    /\ LET resolved == FirstMatch(StepResults(pricingCache[1], events[exIdx - 1].model.s))
       IN  /\ resolved /= None
           /\ resolved[1].cachedCostPerToken = Some(0)
           /\ resolved[1].inputCostPerToken > 0
    /\ costResult /= None
    /\ costResult[1].cachedCost = 0
    /\ costResult[1].totalCost > 0

\* C5: among pricing lookups started before the first fetch has resolved, at
\* most one fetch is outstanding at any time, every caller observes the same
\* cache, and a populated cache is never replaced by a later fetch result
\* (so every caller that has returned holds the catalog that is cached).
C5_SingleFetchSharedCache ==
    /\ Cardinality({c \in CallIds : calls[c].pc = "fetch"}) <= 1
    /\ \A c \in DoneCalls : calls[c].pricing = pricingCache
    /\ \A c \in DoneCalls, d \in DoneCalls : calls[c].pricing = calls[d].pricing

\* the bundled snapshot plus the experimental entries for keys it lacks
SnapshotPlusExperimental(snap) ==
    snap \o SelectSeq(EXPERIMENTAL_MODELS,
                      LAMBDA e : \A i \in DOMAIN snap : snap[i].key /= e.key)

C7_OfflineNeverFetches ==
    ~onlineLookups =>
        /\ fetchesIssued = 0
        /\ \A c \in CallIds : calls[c].pc \notin {"fetch", "fallback"}
        /\ pricingCache /= None =>
              pricingCache = Some(SnapshotPlusExperimental(snapshot))
        /\ \A c \in DoneCalls :
              calls[c].pricing = Some(SnapshotPlusExperimental(snapshot))

\* offline lookups have populated the cache from a snapshot that holds an
\* experimental key, and have returned
C7_Witness ==
    /\ ~onlineLookups
    /\ pricingCache /= None
    /\ \E i \in DOMAIN snapshot : MapHas(EXPERIMENTAL_MODELS, snapshot[i].key)
    /\ \A c \in CallIds : calls[c].pc = "done" /\ calls[c].offline

\* a bare word somewhere in a record makes its text invalid JSON
HasBare(value) ==
    \E i \in DOMAIN value.members :
        \/ value.members[i].v = Bare
        \/ \E j \in DOMAIN value.members[i].v.members :
              value.members[i].v.members[j].v = Bare

\* a written record that is truncated or otherwise invalid JSON
Malformed(r) == r.form = "truncated" \/ HasBare(r.value)

WholeAttrs(r) == Prop(r.value, "attributes")

\* a well-formed record that has an attributes map naming the API-response
\* event and whose projection satisfies the event schema
IsApiResponseRecord(r) ==
    /\ ~Malformed(r)
    /\ WholeAttrs(r).vt = "obj"
    /\ Prop(WholeAttrs(r), "event.name") = Str(API_RESPONSE)
    /\ telemetryEventSchema(rawEvent(WholeAttrs(r)))

\* the event a whole API-response record stands for
EventOf(r) == rawEvent(WholeAttrs(r))

RECURSIVE EventsOf(_)
EventsOf(rs) ==
    IF rs = <<>> THEN <<>> ELSE <<EventOf(Head(rs))>> \o EventsOf(Tail(rs))

Parsed == phase /= "writing"

\* C8: for content made of N pretty-printed API-response records, each
\* followed only by a newline, parseTelemetryContent returns exactly N
\* events, one per record, in file order.
C8_OneEventPerRecord ==
    (Parsed /\ \A i \in DOMAIN written : IsApiResponseRecord(written[i]))
    => events = EventsOf(written)

\* a file of three API-response records, not all alike, has been parsed
\* into three events
C8_Witness ==
    /\ Parsed
    /\ Len(written) = 3
    /\ \A i \in DOMAIN written : IsApiResponseRecord(written[i])
    /\ written[1] /= written[2]
    /\ Len(events) = 3

\* C9: when one record of the content is truncated or otherwise invalid
\* JSON, parseTelemetryContent returns exactly the events of the other,
\* valid API-response records.
C9_FaultIsolation ==
    (Parsed /\ Cardinality({i \in DOMAIN written : Malformed(written[i])}) = 1)
    => events = EventsOf(SelectSeq(written, IsApiResponseRecord))

\* C10: every event parseTelemetryContent returns comes from a record whose
\* attributes map names the event gemini_cli.api_response; a record with
\* another event name or with no attributes map contributes nothing.
C10_OnlyApiResponseEvents ==
    Parsed =>
        \A e \in DOMAIN events :
            \E i \in DOMAIN written :
                /\ IsApiResponseRecord(written[i])
                /\ events[e] = EventOf(written[i])

\* a file holding a config event and a record without attributes, both
\* carrying model and token counts, and an API response has been parsed
C10_Witness ==
    /\ Parsed
    /\ \E i \in DOMAIN written : written[i] = Rec("pretty", ConfigEvent, 0)
    /\ \E i \in DOMAIN written : written[i] = Rec("pretty", NoAttributes, 0)
    /\ Len(events) = 1

\* the attributes that carry token counts
TokenCountKeys ==
    {"input_token_count", "output_token_count", "cached_content_token_count",
     "thoughts_token_count", "tool_token_count"}

\* a present value that is negative, not an integer or not a number
BadCount(v) == v.vt /= "undef" /\ ~(v.vt = "num" /\ v.n >= 0)

\* a well-formed record whose attributes map names the API-response event
WellFormedApiResponse(r) ==
    /\ r.form = "pretty"
    /\ ~HasBare(r.value)
    /\ WholeAttrs(r).vt = "obj"
    /\ Prop(WholeAttrs(r), "event.name") = Str(API_RESPONSE)

\* an API-response record with a token count the schema cannot accept
SchemaRejected(r) ==
    /\ WellFormedApiResponse(r)
    /\ \E k \in TokenCountKeys : BadCount(Prop(WholeAttrs(r), k))

\* C11: in content made of API-response records, a record with a token count
\* that is negative, non-integer or not a number is dropped without an
\* exception, and the events of the other records are returned in order.
C11_SchemaFailureDropped ==
    (Parsed /\ \A i \in DOMAIN written :
                  IsApiResponseRecord(written[i]) \/ SchemaRejected(written[i]))
    => /\ ~parseThrew
       /\ events = EventsOf(SelectSeq(written, LAMBDA r : ~SchemaRejected(r)))

\* a record with a bad token count between two valid records has been
\* dropped and the two others returned
C11_Witness ==
    /\ Parsed
    /\ Len(written) = 3
    /\ IsApiResponseRecord(written[1])
    /\ SchemaRejected(written[2])
    /\ IsApiResponseRecord(written[3])
    /\ ~parseThrew
    /\ events = <<EventOf(written[1]), EventOf(written[3])>>

WhitespaceOnly(text) == \A i \in DOMAIN text : text[i].t \in {"nl", "sp"}

\* C12: parseTelemetryContent never raises, whatever the content, and
\* returns the empty sequence for empty or whitespace-only content.
C12_NeverRaises ==
    Parsed =>
        /\ ~parseThrew
        /\ WhitespaceOnly(content) => events = <<>>

\* content of a blank line followed by a record that is not JSON has been
\* parsed without an exception
C12_Witness ==
    /\ Parsed
    /\ Len(written) = 2
    /\ written[1].form = "blank"
    /\ Malformed(written[2])
    /\ ~parseThrew
    /\ events = <<>>

\* C13: every event parseTelemetryContent returns has a non-empty timestamp
\* string that denotes a calendar date and a non-empty model string (so an
\* API-response record without event.timestamp or model yields no event).
C13_EventsSatisfyDataModel ==
    Parsed =>
        \A e \in DOMAIN events :
            /\ events[e].timestamp.vt = "str"
            /\ events[e].timestamp.s /= ""
            /\ IsValidTimestamp(events[e].timestamp.s)
            /\ events[e].model.vt = "str"
            /\ events[e].model.s /= ""

\* the record extractUsageFromTelemetry owes to an eligible event
ExpectedUsage(event) ==
    [model |-> event.model.s,
     inputTokens |-> CountOrZero(event.inputTokens),
     outputTokens |-> CountOrZero(event.outputTokens),
     cacheCreationTokens |-> 0,
     cacheReadTokens |-> CountOrZero(event.cachedTokens)]

ExtractionEnded == phase \in {"extracted", "rejected"}

\* C14: once extractUsageFromTelemetry has ended, usageData holds exactly one
\* record, in input order, for each event whose model and timestamp are both
\* non-empty and none for the other events; in each record absent token
\* counts are 0, cacheReadTokens is the event's cachedTokens and
\* cacheCreationTokens is 0.
C14_OneRecordPerEligibleEvent ==
    ExtractionEnded =>
        /\ Len(usageData) = Len(Extractable(Len(events)))
        /\ \A j \in DOMAIN usageData :
              LET expected == ExpectedUsage(Extractable(Len(events))[j])
              IN  /\ usageData[j].model = expected.model
                  /\ usageData[j].inputTokens = expected.inputTokens
                  /\ usageData[j].outputTokens = expected.outputTokens
                  /\ usageData[j].cacheCreationTokens = 0
                  /\ usageData[j].cacheReadTokens = expected.cacheReadTokens

\* C15: report generation is never aborted by the telemetry's content: the
\* extraction of the events of any parsed file does not raise.
C15_ReportNeverAborts == phase /= "rejected"

Reported == phase = "reported"
Unfiltered == since = None /\ until = None

\* the sum of a field over the elements of seq at the indexes idx
RECURSIVE SumField(_, _, _)
SumField(seq, idx, field) ==
    IF idx = {} THEN 0
    ELSE LET j == CHOOSE j \in idx : TRUE
         IN  seq[j][field] + SumField(seq, idx \ {j}, field)

\* the extracted records whose date is the key
RecordsOfDate(key) == {j \in DOMAIN usageData : usageData[j].date = key}

\* C16: in the unfiltered daily rollup, each bucket's inputTokens,
\* outputTokens, cacheReadTokens and totalCost are the sums of inputTokens,
\* outputTokens, cacheReadTokens and cost over exactly the extracted records
\* of the bucket's date, and modelsUsed holds each model of those records
\* once and no other model.
C16_BucketTotalsAreSums ==
    (Reported /\ reportKind = "daily" /\ Unfiltered) =>
        \A b \in DOMAIN report :
            LET idx == RecordsOfDate(report[b].key)
                used == report[b].modelsUsed
            IN  /\ idx /= {}
                /\ report[b].inputTokens = SumField(usageData, idx, "inputTokens")
                /\ report[b].outputTokens = SumField(usageData, idx, "outputTokens")
                /\ report[b].cacheReadTokens = SumField(usageData, idx, "cacheReadTokens")
                /\ report[b].totalCost = SumField(usageData, idx, "cost")
                /\ {used[i] : i \in DOMAIN used} = {usageData[j].model : j \in idx}
                /\ \A i \in DOMAIN used, k \in DOMAIN used : used[i] = used[k] => i = k

\* a daily report holds a bucket of three records, two of them for the
\* same model, with a cost
C16_Witness ==
    /\ Reported /\ reportKind = "daily" /\ Unfiltered
    /\ \E b \in DOMAIN report :
          /\ Cardinality(RecordsOfDate(report[b].key)) = 3
          /\ Len(report[b].modelsUsed) = 2
          /\ report[b].totalCost > 0
          /\ report[b].inputTokens = 8

\* the key a record falls under in a report of the kind, by its spelling
KeySpelling(kind, date) ==
    IF kind = "monthly" THEN SubSeq(Chars[date], 1, 7) ELSE Chars[date]

\* C17: the buckets of a daily or monthly report are strictly ascending by
\* key whatever the order of the events (so no key has two buckets), and in
\* an unfiltered report every date (month) with an extracted record has a
\* bucket.
C17_StrictlyAscendingKeys ==
    Reported =>
        /\ \A i \in DOMAIN report, j \in DOMAIN report :
              i < j => StrLess(Chars[report[i].key], Chars[report[j].key])
        /\ Unfiltered =>
              \A j \in DOMAIN usageData :
                  \E b \in DOMAIN report :
                      Chars[report[b].key] = KeySpelling(reportKind, usageData[j].date)

\* events that were not in date order have been reported in three buckets
C17_Witness ==
    /\ Reported /\ reportKind = "daily" /\ Unfiltered
    /\ Len(usageData) = 3
    /\ StrLess(Chars[usageData[3].date], Chars[usageData[2].date])
    /\ StrLess(Chars[usageData[2].date], Chars[usageData[1].date])
    /\ Len(report) = 3

\* the months that have an extracted record, by spelling
Months == {SubSeq(Chars[usageData[j].date], 1, 7) : j \in DOMAIN usageData}

\* the daily and the monthly rollup of the extracted records; one of the two
\* is the report that was returned
DailyRollup ==
    IF reportKind = "daily" THEN report ELSE loadUsageData("daily", usageData, None, None)
MonthlyRollup ==
    IF reportKind = "monthly" THEN report ELSE loadUsageData("monthly", usageData, None, None)

DaysOfMonth(m) == {d \in DOMAIN DailyRollup : SubSeq(Chars[DailyRollup[d].key], 1, 7) = m}

RECURSIVE DigitsValue(_)
DigitsValue(digits) ==
    IF digits = <<>> THEN 0
    ELSE 10 * DigitsValue(SubSeq(digits, 1, Len(digits) - 1))
         + (CodeUnit(digits[Len(digits)]) - CodeUnit("0"))

\* the first n characters at most
FirstChars(chars, n) == [i \in 1..(IF Len(chars) < n THEN Len(chars) ELSE n) |-> chars[i]]

\* YYYYMMDD of a date, timestamp or bound, as a number
DayNumber(name) ==
    DigitsValue(SelectSeq(FirstChars(Chars[name], 10), LAMBDA ch : ch /= "-"))

\* the item is within the bounds, both inclusive
InRange(item, sinceArg, untilArg) ==
    /\ sinceArg = None \/ DayNumber(item.date) >= DayNumber(sinceArg[1])
    /\ untilArg = None \/ DayNumber(item.date) <= DayNumber(untilArg[1])

\* the same bound written in the other format
OtherFormat(arg) ==
    IF arg = None THEN None
    ELSE Some(CASE arg[1] = "20240102" -> "2024-01-02"
                [] arg[1] = "2024-01-02" -> "20240102"
                [] arg[1] = "20240104" -> "2024-01-04"
                [] arg[1] = "2024-01-04" -> "20240104")

\* C19: filterByDateRange keeps, in their order, exactly the items whose
\* date (first 10 characters, hyphens removed) is >= since when since is
\* given and <= until when until is given; bounds written as YYYYMMDD or as
\* YYYY-MM-DD give the same result; since 2024-01-02 and until 2024-01-04
\* over the days 2024-01-01..05 give the days 02, 03, 04.
C19_FilterKeepsRange ==
    phase = "filtered" =>
        /\ filtered = SelectSeq(filterItems, LAMBDA item : InRange(item, filterSince, filterUntil))
        /\ filtered = filterByDateRange(filterItems, OtherFormat(filterSince),
                                        OtherFormat(filterUntil))
        /\ (/\ filterItems = testData
            /\ filterSince = Some("2024-01-02")
            /\ filterUntil = Some("2024-01-04"))
           => filtered = << Item(2, "2024-01-02"), Item(3, "2024-01-03"),
                            Item(4, "2024-01-04") >>

\* the five days have been filtered with both bounds and three were kept
C19_Witness ==
    /\ phase = "filtered"
    /\ filterItems = testData
    /\ filterSince = Some("2024-01-02")
    /\ filterUntil = Some("2024-01-04")
    /\ Len(filtered) = 3
    /\ filtered[1].id = 2 /\ filtered[3].id = 4

TotalFields ==
    {"inputTokens", "outputTokens", "cacheCreationTokens", "cacheReadTokens", "totalCost"}

FilteredDaily ==
    IF reportKind = "daily" THEN report ELSE loadUsageData("daily", usageData, since, until)
FilteredMonthly ==
    IF reportKind = "monthly" THEN report ELSE loadUsageData("monthly", usageData, since, until)

\* C28: for one since / until pair, the bucket of month M is in the filtered
\* monthly rollup whenever a daily bucket of month M is in the filtered daily
\* rollup.
C28_MonthlyFilterAgreesWithDaily ==
    Reported =>
        \A d \in DOMAIN FilteredDaily :
            \E m \in DOMAIN FilteredMonthly :
                Chars[FilteredMonthly[m].key] = SubSeq(Chars[FilteredDaily[d].key], 1, 7)

\* ------------------------------------------- two reports in one process
\* an API response of the morning (UTC) of 2025-08-24
ApiEarly ==
    Attrs(<< Member("event.name", Str(API_RESPONSE)),
             Member("event.timestamp", Str("2025-08-24T10:00:00.000Z")),
             Member("model", Str("gemini-flash")),
             Member("input_token_count", Num(2)),
             Member("output_token_count", Num(1)) >>)

ZonedRecordKinds ==
    { Rec("pretty", ApiFlash, 0), Rec("pretty", ApiUnknown, 0), Rec("pretty", ApiEarly, 0) }

\* the daily report is called a second time in the same process on the same
\* file: loadTelemetryData and extractUsageFromTelemetry start afresh, the
\* module variable pricingCache is what the first call left
Rerun(off) ==
    /\ phase = "reported"
    /\ firstReport = None
    /\ firstReport' = Some(report)
    /\ \E completion \in {parseCompletion(content)} :
           /\ parseThrew' = completion.thrown
           /\ events' = IF completion.thrown THEN <<>> ELSE completion.val
    /\ offline' = off
    /\ phase' = "extracting"
    /\ exIdx' = 1
    /\ costResult' = None
    /\ usageData' = <<>>
    /\ UNCHANGED <<content, written, timeZone, reportVars, utilVars, watcherVars, loaderVars, displayVars>>
    /\ UNCHANGED pricingVars
    /\ UNCHANGED calls

\* daily reports on hosts of any zone, run once and then once more
RerunNext ==
    \/ \E r \in ZonedRecordKinds : WriteRecord(r)
    \/ \E o \in BOOLEAN, tz \in TimeZones : RunReport(o, tz)
    \/ ExtractCached
    \/ ExtractOffline
    \/ \E d \in RemoteDocs : ExtractFetchOk(d)
    \/ ExtractFetchFail
    \/ ReportReturn("daily", None, None)
    \/ \E o \in BOOLEAN : Rerun(o)

RerunSpec == Init /\ [][RerunNext]_vars

\* C21: the second daily report of a process on identical content returns
\* the bucket sequence the first one returned.
C21_SecondRunIdentical ==
    (Reported /\ firstReport /= None) => report = firstReport[1]

\* a second run that priced two events, after a first run that had to fetch
C21_Witness ==
    /\ Reported
    /\ firstReport /= None
    /\ Len(usageData) >= 2
    /\ fetchesIssued = 1
    /\ \E b \in DOMAIN report : report[b].totalCost > 0

\* the calendar day, counted from 2025-08-01, that the instant of event e
\* lies on in the host's zone, and in UTC
LocalDay(e) == (Instants[events[e].timestamp.s] + timeZone * 60) \div 1440
UTCDay(e) == Instants[events[e].timestamp.s] \div 1440
EventsOfLocalDay(key) == {e \in DOMAIN events : Calendar[LocalDay(e)] = key}

\* C22: each extracted record is bucketed under the calendar date of its
\* timestamp in the host's zone: its date is that local date, every daily
\* bucket holds exactly the events of one local day, and there is one
\* bucket per local day, so two events share a bucket iff their timestamps
\* lie on the same local day.
C22_BucketedByLocalDate ==
    (Reported /\ Len(usageData) = Len(events)) =>
        /\ \A e \in DOMAIN events : usageData[e].date = Calendar[LocalDay(e)]
        /\ \A b \in DOMAIN report :
              /\ EventsOfLocalDay(report[b].key) /= {}
              /\ report[b].inputTokens =
                     SumField(usageData, EventsOfLocalDay(report[b].key), "inputTokens")
        /\ \A e \in DOMAIN events : \E b \in DOMAIN report : report[b].key = Calendar[LocalDay(e)]
        /\ Len(report) = Cardinality({LocalDay(e) : e \in DOMAIN events})

\* a report on a host east or west of UTC over two events of one UTC day
\* that lie on different local days and two events of different UTC days
\* that lie on one local day
C22_Witness ==
    /\ Reported
    /\ Len(usageData) = Len(events)
    /\ timeZone /= 0
    /\ \E e1 \in DOMAIN events, e2 \in DOMAIN events :
          UTCDay(e1) = UTCDay(e2) /\ LocalDay(e1) /= LocalDay(e2)
    /\ \E e1 \in DOMAIN events, e2 \in DOMAIN events :
          UTCDay(e1) /= UTCDay(e2) /\ LocalDay(e1) = LocalDay(e2)

\* ------------------------------------------------------- telemetry watcher
\* the log records of the watched file: an API response and an event of
\* another name
WatchedFlash ==
    Attrs(<< Member("event.name", Str(API_RESPONSE)),
             Member("input_token_count", Num(3)) >>)

WatchedConfig ==
    Attrs(<< Member("event.name", Str("gemini_cli.config")) >>)

WatchedRecordKinds ==
    { Rec("pretty", WatchedFlash, 0), Rec("pretty", WatchedConfig, 0) }

\* fullData.split(/\}\s*\{/): leftmost matches of a closing brace, any
\* whitespace and an opening brace
RECURSIVE splitObjects(_)
splitObjects(s) ==
    LET nextSolid(i) ==
            LET later == {j \in (i + 1)..Len(s) : ~IsSpace(s[j])}
            IN  IF later = {} THEN 0 ELSE Min(later)
        hits == {i \in DOMAIN s :
                    s[i] = RB /\ nextSolid(i) /= 0 /\ s[nextSolid(i)] = LB}
    IN  IF hits = {} THEN <<s>>
        ELSE <<SubSeq(s, 1, Min(hits) - 1)>>
             \o splitObjects(SubSeq(s, nextSolid(Min(hits)) + 1, Len(s)))

\* a || b
Falsy(v) ==
    \/ v.vt \in {"undef", "null"}
    \/ v.vt = "num" /\ v.n = 0
    \/ v.vt = "str" /\ v.s = ""
OrElse(a, b) == IF Falsy(a) THEN b ELSE a

TOKEN_USAGE == "gemini_cli.token.usage"
Emit(name, data) == [name |-> name, data |-> data]

\* processEvent(event): the events it emits, in order
processEvent(event) ==
    LET attrs == OrElse(Prop(event, "attributes"), Obj(<<>>))
        eventName == Prop(attrs, "event.name")
        timestamp == OrElse(Prop(attrs, "event.timestamp"), Str("now"))
        tokenUsage ==
            [model |-> OrElse(Prop(attrs, "model"), Str("unknown")),
             type |-> OrElse(Prop(attrs, "type"), Str("unknown")),
             count |-> Prop(attrs, "value"),
             sessionId |-> Prop(attrs, "session.id"),
             timestamp |-> timestamp]
        apiResponse ==
            [model |-> OrElse(Prop(attrs, "model"), Str("unknown")),
             inputTokenCount |-> OrElse(Prop(attrs, "input_token_count"), Num(0)),
             outputTokenCount |-> OrElse(Prop(attrs, "output_token_count"), Num(0)),
             cachedTokenCount |-> Prop(attrs, "cached_content_token_count"),
             thoughtsTokenCount |-> Prop(attrs, "thoughts_token_count"),
             toolTokenCount |-> Prop(attrs, "tool_token_count"),
             totalTokenCount |-> Prop(attrs, "total_token_count"),
             durationMs |-> Prop(attrs, "duration_ms"),
             timestamp |-> timestamp]
    IN  (IF eventName = Str(TOKEN_USAGE) /\ ~Falsy(Prop(attrs, "value"))
         THEN <<Emit("token-usage", tokenUsage)>> ELSE <<>>)
        \o (IF eventName = Str(API_RESPONSE)
            THEN <<Emit("api-response", apiResponse)>> ELSE <<>>)
        \o (IF ~Falsy(eventName) THEN <<Emit("raw-event", attrs)>> ELSE <<>>)

\* parts[i] with the braces the split removed added back
restoreBraces(parts, i) ==
    (IF i > 1 THEN <<LB>> ELSE <<>>) \o parts[i]
    \o (IF i < Len(parts) THEN <<RB>> ELSE <<>>)

\* the for loop of checkForNewData from index i on: partial is
\* this.partialData, out the events emitted so far
RECURSIVE partsLoop(_, _, _, _)
partsLoop(parts, i, partial, out) ==
    IF i > Len(parts) THEN [partialData |-> partial, out |-> out]
    ELSE LET part == restoreBraces(parts, i)
             event == JSONparse(part)
         IN  IF event /= None
             THEN partsLoop(parts, i + 1, partial, out \o processEvent(event[1]))
             ELSE partsLoop(parts, i + 1, IF i = Len(parts) THEN part ELSE partial, out)

\* checkForNewData once newData has been read: the new partialData and the
\* events emitted
checkForNewData(partial, newData) ==
    LET fullData == partial \o newData
        parts == splitObjects(fullData)
        loop == partsLoop(parts, 1, partial, <<>>)
    IN  [partialData |->
            IF Len(parts) = 1
            THEN (IF JSONparse(fullData) /= None THEN <<>> ELSE fullData)
            ELSE loop.partialData,
         out |-> loop.out]

\* bound on the interval timers alive at once
MaxTimers == 2

\* start()
StartUnguarded ==
    /\ activeTimers < MaxTimers
    /\ watching' = TRUE
    /\ watchInterval' = TRUE
    /\ activeTimers' = activeTimers + 1
    /\ UNCHANGED <<lastPosition, partialData, emitted, firstReport, loaderVars, displayVars>>
    /\ UNCHANGED <<pricingVars, batchVars, calls>>

Start ==
    /\ ~watching
    /\ activeTimers < MaxTimers
    /\ watching' = TRUE
    /\ watchInterval' = TRUE
    /\ activeTimers' = activeTimers + 1
    /\ UNCHANGED <<lastPosition, partialData, emitted, firstReport, loaderVars, displayVars>>
    /\ UNCHANGED <<pricingVars, batchVars, calls>>

\* stop()
Stop ==
    /\ watching' = FALSE
    /\ watchInterval' = FALSE
    /\ activeTimers' = IF watchInterval THEN activeTimers - 1 ELSE activeTimers
    /\ UNCHANGED <<lastPosition, partialData, emitted, firstReport, loaderVars, displayVars>>
    /\ UNCHANGED <<pricingVars, batchVars, calls>>

\* an interval timer fires and checkForNewData runs to its end.  content
\* is what the wrapped CLI has written, size how much of it the file holds
\* when statSync looks; a size that is not beyond lastPosition returns early
Poll(size) ==
    /\ activeTimers > 0
    /\ size > lastPosition
    /\ size <= Len(content)
    /\ LET cycle == checkForNewData(partialData, SubSeq(content, lastPosition + 1, size))
       IN  /\ partialData' = cycle.partialData
           /\ emitted' = emitted \o cycle.out
    /\ lastPosition' = size
    /\ UNCHANGED <<watching, watchInterval, activeTimers, firstReport, loaderVars, displayVars>>
    /\ UNCHANGED <<pricingVars, batchVars, calls>>

\* a started watcher polling a file that grows, every poll ending at any
\* lexeme of what has been written
WatcherNext ==
    \/ \E r \in WatchedRecordKinds : WriteRecord(r)
    \/ Start
    \/ \E size \in 1..Len(content) : Poll(size)

WatcherSpec == Init /\ [][WatcherNext]_vars

\* start() and stop() in any order around the polls of a file of one kind
\* of record
TimerNext ==
    \/ WriteRecord(Rec("pretty", WatchedFlash, 0))
    \/ Start
    \/ Stop
    \/ \E size \in 1..Len(content) : Poll(size)

TimerSpec == Init /\ [][TimerNext]_vars

\* the 'api-response' events among the emitted ones, and the written
\* records that are API responses
ApiEmitted == SelectSeq(emitted, LAMBDA e : e.name = "api-response")
IsApiRecord(r) == Prop(Prop(r.value, "attributes"), "event.name") = Str(API_RESPONSE)
ApiWritten == SelectSeq(written, IsApiRecord)

\* C23: once every byte of the file has been read, the watcher has emitted
\* exactly one 'api-response' event per written API-response record, in
\* file order, however the bytes were divided into polls.
C23_OneEventPerRecord ==
    lastPosition = Len(content) =>
        /\ Len(ApiEmitted) = Len(ApiWritten)
        /\ \A i \in DOMAIN ApiEmitted :
              ApiEmitted[i].data.inputTokenCount =
                  Prop(Prop(ApiWritten[i].value, "attributes"), "input_token_count")

\* lexemes of the file before record k, and up to its closing brace
RECURSIVE RecordStart(_)
RecordStart(k) ==
    IF k = 1 THEN 0 ELSE RecordStart(k - 1) + Len(Text(written[k - 1])) + 1
RecordEnd(k) == RecordStart(k) + Len(Text(written[k]))

\* the final piece of the cycle that reads newData onto the fragment partial
FinalPiece(partial, newData) ==
    LET parts == splitObjects(partial \o newData)
    IN  restoreBraces(parts, Len(parts))

\* the step is a poll cycle that read new bytes
PollCycle == lastPosition' > lastPosition
NewData == SubSeq(content, lastPosition + 1, lastPosition')

\* a final piece that fails to parse becomes the tail fragment
C24_FinalPieceKept ==
    (PollCycle /\ JSONparse(FinalPiece(partialData, NewData)) = None)
        => partialData' = FinalPiece(partialData, NewData)

\* an API-response record that the previous poll cut and this poll reads to
\* its end is emitted by this poll
C24_SplitRecordEmitted ==
    PollCycle =>
        \A k \in DOMAIN written :
            (/\ IsApiRecord(written[k])
             /\ RecordStart(k) < lastPosition
             /\ lastPosition < RecordEnd(k)
             /\ RecordEnd(k) <= lastPosition')
            => \E i \in (Len(emitted) + 1)..Len(emitted') :
                  emitted'[i].name = "api-response"

\* C24: a final piece that fails to parse is kept as the tail fragment and
\* prepended to the next read, so a record whose bytes are split across two
\* consecutive polls is emitted by the second one.
C24_TailFragmentCompletesRecord ==
    [][C24_FinalPieceKept /\ C24_SplitRecordEmitted]_vars

\* C27: after a poll cycle whose final piece parses the tail fragment is
\* empty.
C27_FragmentClearedAfterParse ==
    [][(PollCycle /\ JSONparse(FinalPiece(partialData, NewData)) /= None)
          => partialData' = <<>>]_vars

\* C25: at most one polling timer is active; the watcher holds it exactly
\* while watching, so after stop() none is active; and only a step of a
\* watching watcher reads the file, changes the fragment or emits.
C25_AtMostOneTimer ==
    /\ [](/\ activeTimers <= 1
          /\ watching <=> activeTimers = 1
          /\ watching <=> watchInterval)
    /\ [][(lastPosition' /= lastPosition \/ partialData' /= partialData
              \/ emitted' /= emitted) => (watching /\ watching')]_vars

\* the watcher was started, polled, and is stopped with unread bytes in the
\* file
C25_Witness ==
    /\ ~watching
    /\ activeTimers = 0
    /\ lastPosition > 0
    /\ lastPosition < Len(content)

\* ------------------------------------------------------ telemetry directory
\* An entry of a directory.  stat is what statSync(path) gives: "dir",
\* "file", or "throws" (a dangling symbolic link, an entry removed since
\* readdirSync); dateName / uuidName / jsonl tell which of the name patterns
\* the name matches; readable is FALSE when readdirSync or readFileSync on
\* it throws; files are the entries of a directory, content the text of a
\* file.
DirEntry(stat, dateName, uuidName, jsonl, readable, files, text) ==
    [stat |-> stat, dateName |-> dateName, uuidName |-> uuidName, jsonl |-> jsonl,
     readable |-> readable, files |-> files, content |-> text]

TelemetryFile(readable, value) ==
    DirEntry("file", FALSE, TRUE, TRUE, readable, <<>>,
             PrettyObj(value.members, 0) \o <<NL>>)
LegacyFile(readable, value) ==
    DirEntry("file", FALSE, FALSE, TRUE, readable, <<>>,
             PrettyObj(value.members, 0) \o <<NL>>)
DateDir(readable, files) == DirEntry("dir", TRUE, FALSE, FALSE, readable, files, <<>>)
DanglingLink == DirEntry("throws", FALSE, FALSE, FALSE, FALSE, <<>>, <<>>)
OtherDir == DirEntry("dir", FALSE, FALSE, FALSE, TRUE, <<TelemetryFile(TRUE, ApiUnknown)>>, <<>>)

EntryChoices ==
    { DateDir(TRUE, <<TelemetryFile(TRUE, ApiEarly)>>),
      DateDir(TRUE, <<TelemetryFile(FALSE, ApiUnknown), TelemetryFile(TRUE, WatchedFlash)>>),
      DateDir(FALSE, <<TelemetryFile(TRUE, ApiUnknown)>>),
      LegacyFile(TRUE, ApiUnknown),
      LegacyFile(FALSE, ApiEarly),
      DanglingLink,
      OtherDir }

\* one telemetry file (lines 194-201 and 219-226): a failed read is caught
fileEvents(file) ==
    IF file.readable THEN parseTelemetryContent(file.content) ELSE <<>>

RECURSIVE filesLoop(_, _)
filesLoop(files, i) ==
    IF i > Len(files) THEN <<>> ELSE fileEvents(files[i]) \o filesLoop(files, i + 1)

\* one date directory (lines 183-206): a failed readdirSync is caught
dateDirEvents(dir) ==
    IF dir.readable
    THEN filesLoop(SelectSeq(dir.files, LAMBDA f : f.jsonl /\ f.uuidName), 1)
    ELSE <<>>

RECURSIVE dateDirsLoop(_, _)
dateDirsLoop(dirs, i) ==
    IF i > Len(dirs) THEN <<>> ELSE dateDirEvents(dirs[i]) \o dateDirsLoop(dirs, i + 1)

\* items.filter(...) of lines 173-177: statSync is called on every item
dateDirsFilter(items) ==
    IF \E i \in DOMAIN items : items[i].stat = "throws"
    THEN Thrown(<<>>)
    ELSE Normal(SelectSeq(items, LAMBDA item : item.stat = "dir" /\ item.dateName))

\* the legacy block of lines 210-231: statSync is called on the .jsonl
\* names; its exception is caught by the block's own catch
legacyEvents(items) ==
    IF \E i \in DOMAIN items : items[i].jsonl /\ items[i].stat = "throws"
    THEN <<>>
    ELSE filesLoop(SelectSeq(items, LAMBDA item : item.jsonl /\ item.stat /= "dir"), 1)

\* loadTelemetryData: the completion of the call
loadTelemetryData(exists, items) ==
    IF ~exists THEN Normal(<<>>)
    ELSE LET dateDirs == dateDirsFilter(items)
         IN  IF dateDirs.thrown THEN Normal(<<>>)
             ELSE Normal(dateDirsLoop(dateDirs.val, 1) \o legacyEvents(items))

\* bound on the entries of the base directory
MaxEntries == 3

\* the usage directory is created
MakeDir ==
    /\ ~baseDirExists
    /\ loaded = None
    /\ baseDirExists' = TRUE
    /\ UNCHANGED <<baseDir, loaded, firstReport, watcherVars, displayVars>>
    /\ UNCHANGED <<pricingVars, batchVars, calls>>

\* an entry appears in it
AddEntry(entry) ==
    /\ baseDirExists
    /\ loaded = None
    /\ Len(baseDir) < MaxEntries
    /\ baseDir' = Append(baseDir, entry)
    /\ UNCHANGED <<baseDirExists, loaded, firstReport, watcherVars, displayVars>>
    /\ UNCHANGED <<pricingVars, batchVars, calls>>

\* loadTelemetryData(baseDir) is called and completes
Load ==
    /\ loaded = None
    /\ loaded' = Some(loadTelemetryData(baseDirExists, baseDir))
    /\ UNCHANGED <<baseDirExists, baseDir, firstReport, watcherVars, displayVars>>
    /\ UNCHANGED <<pricingVars, batchVars, calls>>

LoadNext ==
    \/ MakeDir
    \/ \E entry \in EntryChoices : AddEntry(entry)
    \/ Load

LoadSpec == Init /\ [][LoadNext]_vars

\* the events of the telemetry files that can be read: the UUID-named
\* .jsonl files of the readable date directories in directory order, then
\* the .jsonl files of the base directory
ReadableDateDirs ==
    SelectSeq(baseDir, LAMBDA e : e.stat = "dir" /\ e.dateName /\ e.readable)
RECURSIVE EventsOfFiles(_)
EventsOfFiles(files) ==
    IF files = <<>> THEN <<>>
    ELSE parseTelemetryContent(Head(files).content) \o EventsOfFiles(Tail(files))
RECURSIVE EventsOfDirs(_)
EventsOfDirs(dirs) ==
    IF dirs = <<>> THEN <<>>
    ELSE EventsOfFiles(SelectSeq(Head(dirs).files,
                                 LAMBDA f : f.jsonl /\ f.uuidName /\ f.readable))
         \o EventsOfDirs(Tail(dirs))
ReadableEvents ==
    EventsOfDirs(ReadableDateDirs)
    \o EventsOfFiles(SelectSeq(baseDir,
                               LAMBDA e : e.jsonl /\ e.stat = "file" /\ e.readable))

\* C26: loadTelemetryData never raises, returns the empty sequence for a
\* directory that does not exist, and otherwise returns the events of every
\* readable telemetry file, skipping only the entries that cannot be read
\* or stat'ed.
C26_OnlyUnreadableEntriesSkipped ==
    loaded /= None =>
        /\ ~loaded[1].thrown
        /\ ~baseDirExists => loaded[1].val = <<>>
        /\ baseDirExists => loaded[1].val = ReadableEvents

\* ------------------------------------------------------------ live display
\* log records of a live session: API responses with and without
\* total_token_count, for a priced and for an unknown model, and a token
\* usage metric
LiveApiTotal ==
    Attrs(<< Member("event.name", Str(API_RESPONSE)),
             Member("model", Str("gemini-flash")),
             Member("input_token_count", Num(3)),
             Member("output_token_count", Num(2)),
             Member("total_token_count", Num(5)) >>)

LiveApiPlain ==
    Attrs(<< Member("event.name", Str(API_RESPONSE)),
             Member("model", Str("gemini-flash")),
             Member("input_token_count", Num(1)),
             Member("cached_content_token_count", Num(1)) >>)

LiveApiUnknown ==
    Attrs(<< Member("event.name", Str(API_RESPONSE)),
             Member("model", Str("totally-unknown-model")),
             Member("input_token_count", Num(4)) >>)

LiveUsage ==
    Attrs(<< Member("event.name", Str(TOKEN_USAGE)),
             Member("model", Str("gemini-flash")),
             Member("type", Str("output")),
             Member("value", Num(2)) >>)

\* the 'token-usage' and 'api-response' events the watcher emits for them,
\* which src/index.ts hands to updateTokenUsage and updateApiResponse
LiveEvents ==
    LET records == {LiveApiTotal, LiveApiPlain, LiveApiUnknown, LiveUsage}
        out == UNION {{processEvent(r)[i] : i \in DOMAIN processEvent(r)} : r \in records}
    IN  {e \in out : e.name \in {"token-usage", "api-response"}}

\* getOrCreateStats(model)
NewStats ==
    [requests |-> 0, inputTokens |-> 0, outputTokens |-> 0, cachedTokens |-> 0,
     thoughtsTokens |-> 0, toolTokens |-> 0, totalTokens |-> 0, totalCost |-> 0]
getOrCreateStats(st, model) == IF st[model] = None THEN NewStats ELSE st[model][1]

SumOfCounters(ms) ==
    ms.inputTokens + ms.outputTokens + ms.cachedTokens + ms.thoughtsTokens + ms.toolTokens

\* updateTokenUsage(event) up to the call of updateCost: the new ModelStats
updateTokenUsage(st, event) ==
    LET ms == getOrCreateStats(st, event.model.s)
        type == event.type.s
        counted ==
            [ms EXCEPT
                !.inputTokens = IF type = "input" THEN @ + event.count.n ELSE @,
                !.outputTokens = IF type = "output" THEN @ + event.count.n ELSE @,
                !.cachedTokens = IF type = "cache" THEN @ + event.count.n ELSE @,
                !.thoughtsTokens = IF type = "thought" THEN @ + event.count.n ELSE @,
                !.toolTokens = IF type = "tool" THEN @ + event.count.n ELSE @]
    IN  [counted EXCEPT !.totalTokens = SumOfCounters(counted)]

\* updateApiResponse(event) up to the call of updateCost
updateApiResponse(st, event) ==
    LET ms == getOrCreateStats(st, event.model.s)
        counted ==
            [ms EXCEPT
                !.requests = @ + 1,
                !.inputTokens = @ + event.inputTokenCount.n,
                !.outputTokens = @ + event.outputTokenCount.n,
                !.cachedTokens = @ + OrElse(event.cachedTokenCount, Num(0)).n,
                !.thoughtsTokens = @ + OrElse(event.thoughtsTokenCount, Num(0)).n,
                !.toolTokens = @ + OrElse(event.toolTokenCount, Num(0)).n]
    IN  [counted EXCEPT
            !.totalTokens = OrElse(event.totalTokenCount, Num(SumOfCounters(counted))).n]

\* the handler src/index.ts registers for the event
applyUpdate(st, e) ==
    IF e.name = "token-usage" THEN updateTokenUsage(st, e.data)
    ELSE updateApiResponse(st, e.data)

\* the arguments updateCost passes to calculateCost: the counters as they
\* are when the call is made
CostArgs(model, ms) ==
    [model |-> model, inputTokens |-> ms.inputTokens, outputTokens |-> ms.outputTokens,
     cachedTokens |-> ms.cachedTokens, thoughtsTokens |-> ms.thoughtsTokens,
     toolTokens |-> ms.toolTokens]

\* calculateCost(model, ...) once fetchPricingData has returned `pricing`
costOfArgs(args, pricing) ==
    calculateCost(getModelPricing(pricing, args.model), args.inputTokens,
                  args.outputTokens, args.cachedTokens, args.thoughtsTokens,
                  args.toolTokens)

\* updateCost after its await: `if (cost) stats.totalCost = cost.totalCost`
assignCost(st, args, cost) ==
    IF cost = None THEN st
    ELSE [st EXCEPT ![args.model] = Some([@[1] EXCEPT !.totalCost = cost[1].totalCost])]

\* bound on the update calls made on the display
MaxUpdates == 3

\* new StatsDisplay(): initializePricing() sends the pricing request
Construct(c) ==
    /\ ~constructed
    /\ constructed' = TRUE
    /\ CallFetchStep(c, IdleCall.modelName)
    /\ UNCHANGED <<stats, costArgs, updatesDone, apiCalls>>
    /\ UNCHANGED <<batchVars, firstReport, watcherVars, loaderVars>>

CountApiCall(e) ==
    apiCalls' = IF e.name = "api-response"
                THEN [apiCalls EXCEPT ![e.data.model.s] = @ + 1]
                ELSE apiCalls

\* an update while pricingCache is set: fetchPricingData returns the cache
\* and updateCost resumes before any other task runs
UpdateCached(e) ==
    /\ constructed
    /\ updatesDone < MaxUpdates
    /\ pricingCache /= None
    /\ LET model == e.data.model.s
           ms == applyUpdate(stats, e)
           args == CostArgs(model, ms)
       IN  stats' = assignCost([stats EXCEPT ![model] = Some(ms)], args,
                               costOfArgs(args, pricingCache[1]))
    /\ updatesDone' = updatesDone + 1
    /\ CountApiCall(e)
    /\ onlineLookups' = TRUE
    /\ UNCHANGED <<snapshot, pricingCache, fetchesIssued, cacheWrites, calls>>
    /\ UNCHANGED <<constructed, costArgs>>
    /\ UNCHANGED <<batchVars, firstReport, watcherVars, loaderVars>>

\* an update while pricingCache is not set: updateCost suspends on the
\* request that its lookup c sends
UpdateFetching(e, c) ==
    /\ constructed
    /\ updatesDone < MaxUpdates
    /\ LET model == e.data.model.s
           ms == applyUpdate(stats, e)
       IN  /\ CallFetchStep(c, model)
           /\ stats' = [stats EXCEPT ![model] = Some(ms)]
           /\ costArgs' = [costArgs EXCEPT ![c] = Some(CostArgs(model, ms))]
    /\ updatesDone' = updatesDone + 1
    /\ CountApiCall(e)
    /\ UNCHANGED constructed
    /\ UNCHANGED <<batchVars, firstReport, watcherVars, loaderVars>>

\* lookup c has its catalog: the updateCost call suspended on it, if any,
\* resumes and assigns the cost of the arguments it was called with
ResumeUpdateCost(c, pricing) ==
    /\ stats' = IF costArgs[c] = None THEN stats
                ELSE assignCost(stats, costArgs[c][1], costOfArgs(costArgs[c][1], pricing))
    /\ costArgs' = [costArgs EXCEPT ![c] = None]
    /\ UNCHANGED <<constructed, updatesDone, apiCalls>>
    /\ UNCHANGED <<batchVars, firstReport, watcherVars, loaderVars>>

DisplayFetchOk(c, data) ==
    /\ FetchOkStep(c, data)
    /\ ResumeUpdateCost(c, RemoteCatalog(data))

DisplayFallbackResume(c) ==
    /\ FallbackResumeStep(c)
    /\ ResumeUpdateCost(c, FallbackCatalog(snapshot))

\* the lookups are interchangeable: a new one takes the first free slot
FirstIdle(c) == calls[c].pc = "idle" /\ \A d \in 1..(c - 1) : calls[d].pc /= "idle"

\* the live display: updates arrive while pricing requests are in flight
DisplayNext ==
    \/ \E c \in CallIds : FirstIdle(c) /\ Construct(c)
    \/ \E e \in LiveEvents : UpdateCached(e)
    \/ \E e \in LiveEvents, c \in CallIds : FirstIdle(c) /\ UpdateFetching(e, c)
    \/ \E c \in CallIds, d \in RemoteDocs : DisplayFetchOk(c, d)
    \/ \E c \in CallIds : FetchFail(c)
    \/ \E c \in CallIds : DisplayFallbackResume(c)
    \/ \E c \in CallIds : Return(c)

DisplaySpec == Init /\ [][DisplayNext]_vars

\* C29: each model's totalTokens is the sum of its five token counters and
\* its requests counter is the number of updateApiResponse calls made for
\* the model.
C29_TotalsConsistent ==
    \A m \in DOMAIN stats :
        stats[m] /= None =>
            /\ stats[m][1].totalTokens =
                   stats[m][1].inputTokens + stats[m][1].outputTokens
                   + stats[m][1].cachedTokens + stats[m][1].thoughtsTokens
                   + stats[m][1].toolTokens
            /\ stats[m][1].requests = apiCalls[m]

\* the catalogs a lookup of the session can be answered from
SessionCatalogs == {RemoteCatalog(d) : d \in RemoteDocs} \cup {FallbackCatalog(snapshot)}

\* C30: once no updateCost call is pending, the totalCost of each model that
\* has a price is the cost of the model's current token counters.
C30_CostOfCurrentCounters ==
    (\A c \in CallIds : costArgs[c] = None) =>
        \A m \in DOMAIN stats :
            (stats[m] /= None /\ \A cat \in SessionCatalogs : getModelPricing(cat, m) /= None)
            => \E cat \in SessionCatalogs :
                  stats[m][1].totalCost =
                      costOfArgs(CostArgs(m, stats[m][1]), cat)[1].totalCost

====
